---- MODULE Spec2Model ----
(***************************************************************************)
(* A model of the APML core of AOSC-Dev/pfu (libabbs): the bash pattern    *)
(* compiler, the expression evaluator, the LST serializer and emitter, the *)
(* LST editor and the parser.                                              *)
(*                                                                         *)
(* Strings are sequences of one-character strings, so that slicing,        *)
(* splitting and matching are computed and not assumed.                    *)
(***************************************************************************)
EXTENDS Integers, Sequences, FiniteSets, TLC

(***************************************************************************)
(* Generic helpers on sequences.                                           *)
(***************************************************************************)
Min(a, b) == IF a < b THEN a ELSE b

Max(a, b) == IF a > b THEN a ELSE b

\* s[a..b) with 0-based half-open bounds, as a Rust slice &s[a..b].
Slice(s, a, b) == SubSeq(s, a + 1, b)

RECURSIVE Concat(_)
Concat(ss) == IF ss = <<>> THEN <<>> ELSE Head(ss) \o Concat(Tail(ss))

RECURSIVE JoinWith(_, _)
JoinWith(ss, sep) ==
    IF ss = <<>> THEN <<>>
    ELSE IF Len(ss) = 1 THEN ss[1]
    ELSE ss[1] \o sep \o JoinWith(Tail(ss), sep)

\* The element of a singleton.  The({e(x) : x \in {v}}) is e with x bound to v:
\* v is written, and computed, once however often e uses it.
The(S) == CHOOSE x \in S : TRUE

\* All sequences over S of length 0..n.
SeqsUpTo(S, n) == UNION {[1..k -> S] : k \in 0..n}

(***************************************************************************)
(* Evaluated values (apml/mod.rs).                                         *)
(***************************************************************************)
ValString(s) == [k |-> "String", s |-> s, els |-> <<>>]

ValArray(els) == [k |-> "Array", s |-> <<>>, els |-> els]

\* impl Default for VariableValue
ValDefault == ValString(<<>>)

into_string_unspaced(v) == IF v.k = "String" THEN v.s ELSE Concat(v.els)

into_string(v) == IF v.k = "String" THEN v.s ELSE JoinWith(v.els, <<" ">>)

IsBlank(c) == c \in {" ", "\t", "\n"}

\* The loop of into_array: buf is the buffer, entries the result so far.
RECURSIVE SplitLoop(_, _, _)
SplitLoop(text, buf, entries) ==
    IF text = <<>>
    THEN IF buf # <<>> THEN Append(entries, buf) ELSE entries
    ELSE IF IsBlank(Head(text))
         THEN IF buf # <<>>
              THEN SplitLoop(Tail(text), <<>>, Append(entries, buf))
              ELSE SplitLoop(Tail(text), <<>>, entries)
         ELSE SplitLoop(Tail(text), Append(buf, Head(text)), entries)

into_array(v) ==
    IF v.k = "String"
    THEN IF v.s = <<>> THEN <<>> ELSE SplitLoop(v.s, <<>>, <<>>)
    ELSE v.els

value_len(v) == IF v.k = "String" THEN Len(v.s) ELSE Len(v.els)

value_never_empty(v) == FALSE

value_is_empty(v) == IF v.k = "String" THEN v.s = <<>> ELSE v.els = <<>>

(***************************************************************************)
(* Bash patterns (apml/pattern.rs).  A pattern is a sequence of parts; a   *)
(* part is [k, s, l]: kind, text and, for the extglob forms, its list of   *)
(* patterns.                                                               *)
(***************************************************************************)
GString(s) == [k |-> "String", s |-> s, l |-> <<>>]

GEscaped(c) == [k |-> "Escaped", s |-> <<c>>, l |-> <<>>]

GAnyString == [k |-> "AnyString", s |-> <<>>, l |-> <<>>]

GAnyChar == [k |-> "AnyChar", s |-> <<>>, l |-> <<>>]

GRange(s) == [k |-> "Range", s |-> s, l |-> <<>>]

GList(kind, l) == [k |-> kind, s |-> <<>>, l |-> l]

ListKinds == {"ZeroOrOneOf", "ZeroOrMoreOf", "OneOrMoreOf", "OneOf", "Not"}

(***************************************************************************)
(* The regular expressions build_regex writes, as syntax trees of the text *)
(* it pushes.  A node is [t, c, q, alts, g1]:                              *)
(*   lit   an escaped literal character c                                  *)
(*   any   `.` followed by the quantifier q ("*", "*?" or "?")             *)
(*   grp   a group `(a|b)` or `(?:a)` with quantifier q; g1 marks the      *)
(*         capture group number 1 of the whole expression                  *)
(*   cap   a capturing group not yet numbered                              *)
(*   bol, eol   `^` and `$`                                                *)
(*   neglook    `(?!...)`                                                  *)
(***************************************************************************)
RNode(t, c, q, alts) == [t |-> t, c |-> c, q |-> q, alts |-> alts, g1 |-> FALSE]

RLit(c) == RNode("lit", c, "", <<>>)

RAny(q) == RNode("any", "", q, <<>>)

RCap(alts, q) == RNode("cap", "", q, alts)

RGrp(alts, q) == RNode("grp", "", q, alts)

RBol == RNode("bol", "", "", <<>>)

REol == RNode("eol", "", "", <<>>)

RNegLook(alts) == RNode("neglook", "", "", alts)

LitNodes(s) == [j \in 1..Len(s) |-> RLit(s[j])]

\* The result of build_regex: the nodes pushed, or a panic (todo!()).
BuildOk(re) == [panic |-> FALSE, re |-> re]

BuildPanic == [panic |-> TRUE, re |-> <<>>]

RECURSIVE build_regex(_, _), build_part(_, _), list_alts(_, _, _)

\* The loop of PatternList::build_regex from the j-th pattern: the alternatives.
list_alts(l, j, greedy) ==
    IF j > Len(l) THEN BuildOk(<<>>)
    ELSE The({IF h.panic \/ r.panic THEN BuildPanic ELSE BuildOk(<<h.re>> \o r.re) :
              h \in {build_regex(l[j], greedy)}, r \in {list_alts(l, j + 1, greedy)}})

\* PatternList::build_regex: `(` p1 `|` p2 ... `)`; `()`, the group of an empty
\* list, has one empty alternative.
list_build_regex(l, greedy) ==
    The({IF ~a.panic /\ a.re = <<>> THEN BuildOk(<< <<>> >>) ELSE a :
         a \in {list_alts(l, 1, greedy)}})

\* What the arm of an extglob part pushes around its list.
list_nodes(k, alts, lazy_flag) ==
    CASE k = "ZeroOrOneOf" -> <<RCap(alts, "?")>>
      [] k = "ZeroOrMoreOf" -> <<RCap(alts, "*" \o lazy_flag)>>
      [] k = "OneOrMoreOf" -> <<RCap(alts, "+" \o lazy_flag)>>
      [] k = "OneOf" -> <<RCap(alts, "")>>
      [] k = "Not" -> <<RNegLook(<< <<RCap(alts, "")>> >>), RAny("*")>>

\* One arm of the match in BashPattern::build_regex.
build_part(part, greedy) ==
    LET lazy_flag == IF greedy THEN "" ELSE "?"
    IN CASE part.k = "String" -> BuildOk(LitNodes(part.s))
         [] part.k = "Escaped" -> BuildOk(LitNodes(part.s))
         [] part.k = "AnyString" -> BuildOk(<<RAny("*" \o lazy_flag)>>)
         [] part.k = "AnyChar" -> BuildOk(<<RAny("?")>>)
         [] part.k = "Range" -> BuildPanic
         [] part.k \in ListKinds ->
              The({IF sub.panic THEN BuildPanic
                   ELSE BuildOk(list_nodes(part.k, sub.re, lazy_flag)) :
                   sub \in {list_build_regex(part.l, greedy)}})

build_regex(pattern, greedy) ==
    IF pattern = <<>> THEN BuildOk(<<>>)
    ELSE The({IF h.panic \/ r.panic THEN BuildPanic ELSE BuildOk(h.re \o r.re) :
              h \in {build_part(Head(pattern), greedy)},
              r \in {build_regex(Tail(pattern), greedy)}})

\* The regex crate has no look-around: `(?!` is a syntax error of build().
RECURSIVE HasLookaround(_), AltsHaveLookaround(_)
HasLookaround(re) ==
    \E j \in 1..Len(re) : re[j].t = "neglook" \/ AltsHaveLookaround(re[j].alts)

AltsHaveLookaround(alts) == \E j \in 1..Len(alts) : HasLookaround(alts[j])

\* Group numbering of the compiled expression: the first `(` that is not
\* `(?:` is capture group 1.  NumberSeq returns [re, found].
RECURSIVE NumberSeq(_, _), NumberAlts(_, _)
NumberSeq(re, found) ==
    IF re = <<>> THEN [re |-> <<>>, found |-> found]
    ELSE LET n == Head(re)
         IN The({The({[re |-> <<[t |-> IF n.t = "cap" THEN "grp" ELSE n.t,
                                 c |-> n.c, q |-> n.q, alts |-> inner.re,
                                 g1 |-> n.t = "cap" /\ ~found]>> \o rest.re,
                       found |-> rest.found] :
                      rest \in {NumberSeq(Tail(re), inner.found)}}) :
                 inner \in {NumberAlts(n.alts, found \/ n.t = "cap")}})

NumberAlts(alts, found) ==
    IF alts = <<>> THEN [re |-> <<>>, found |-> found]
    ELSE The({The({[re |-> <<h.re>> \o r.re, found |-> r.found] :
                   r \in {NumberAlts(Tail(alts), h.found)}}) :
              h \in {NumberSeq(Head(alts), found)}})

\* `(?:` and `)` with its quantifier, the two halves of a group that the
\* callers of to_regex split between `before` and `after`.
ROpen == RNode("open", "", "", <<>>)

RClose(q) == RNode("close", "", q, <<>>)

\* The regex parser's reading of `before ++ pattern ++ after`: an ROpen and the
\* next RClose enclose a non-capturing group.
RECURSIVE ParseGroups(_)
ParseGroups(flat) ==
    IF \A j \in 1..Len(flat) : flat[j].t # "open" THEN flat
    ELSE LET o == CHOOSE j \in 1..Len(flat) :
                      flat[j].t = "open" /\ \A h \in 1..(j - 1) : flat[h].t # "open"
             c == CHOOSE j \in (o + 1)..Len(flat) :
                      flat[j].t = "close" /\ \A h \in (o + 1)..(j - 1) : flat[h].t # "close"
         IN SubSeq(flat, 1, o - 1)
            \o <<RGrp(<<SubSeq(flat, o + 1, c - 1)>>, flat[c].q)>>
            \o ParseGroups(SubSeq(flat, c + 1, Len(flat)))

\* BashPattern::to_regex(before, after, greedy): st is "ok", "panic" (todo!() in
\* build_regex) or "err" (RegexBuilder::build fails).
to_regex(pattern, before, after, greedy) ==
    The({IF b.panic THEN [st |-> "panic", re |-> <<>>]
         ELSE IF HasLookaround(b.re) THEN [st |-> "err", re |-> <<>>]
         ELSE [st |-> "ok",
               re |-> NumberSeq(ParseGroups(before \o b.re \o after), FALSE).re] :
         b \in {build_regex(pattern, greedy)}})

(***************************************************************************)
(* Matching, as the regex crate does it: leftmost-first (the preference    *)
(* order of a backtracking search), `.` not matching a newline, and        *)
(* multi_line(true): `^` and `$` match at every line boundary.             *)
(* Positions are 1-based indexes of the next character.  A result is       *)
(* [e, g]: the end position and the span of group 1 (<<>> when the group   *)
(* did not take part).  Results are listed in preference order.            *)
(***************************************************************************)
MRes(e, g) == [e |-> e, g |-> g]

DotAt(s, i) == i <= Len(s) /\ s[i] # "\n"

\* The length of the run of characters `.` matches from position i.
RECURSIVE DotRun(_, _)
DotRun(s, i) == IF DotAt(s, i) THEN 1 + DotRun(s, i + 1) ELSE 0

AtBol(s, i) == i = 1 \/ s[i - 1] = "\n"

AtEol(s, i) == i = Len(s) + 1 \/ s[i] = "\n"

SetG(n, i, rs) ==
    IF n.g1 THEN [j \in 1..Len(rs) |-> MRes(rs[j].e, <<i, rs[j].e>>)] ELSE rs

RECURSIVE MatchSeq(_, _, _, _, _), MatchNode(_, _, _, _), ThenSeq(_, _, _, _),
          AltMatch(_, _, _, _, _), StarMatch(_, _, _, _, _), ThenStar(_, _, _, _, _)

MatchSeq(nodes, k, s, i, g) ==
    IF k > Len(nodes) THEN <<MRes(i, g)>>
    ELSE ThenSeq(MatchNode(nodes[k], s, i, g), nodes, k + 1, s)

ThenSeq(rs, nodes, k, s) ==
    IF rs = <<>> THEN <<>>
    ELSE MatchSeq(nodes, k, s, rs[1].e, rs[1].g) \o ThenSeq(Tail(rs), nodes, k, s)

\* One pass through group n, its alternatives tried from the a-th, in order.
AltMatch(n, a, s, i, g) ==
    IF a > Len(n.alts) THEN <<>>
    ELSE SetG(n, i, MatchSeq(n.alts[a], 1, s, i, g)) \o AltMatch(n, a + 1, s, i, g)

\* Zero or more passes through group n from i.
StarMatch(n, lazy, s, i, g) ==
    The({IF lazy THEN <<MRes(i, g)>> \o more ELSE more \o <<MRes(i, g)>> :
         more \in {ThenStar(AltMatch(n, 1, s, i, g), n, lazy, s, i)}})

\* After one pass from i with results rs: more passes, unless the pass was empty.
ThenStar(rs, n, lazy, s, i) ==
    IF rs = <<>> THEN <<>>
    ELSE (IF rs[1].e > i THEN StarMatch(n, lazy, s, rs[1].e, rs[1].g) ELSE <<rs[1]>>)
         \o ThenStar(Tail(rs), n, lazy, s, i)

MatchNode(n, s, i, g) ==
    LET m == DotRun(s, i)
        any == IF n.q = "?"
               THEN IF m > 0 THEN <<MRes(i + 1, g), MRes(i, g)>> ELSE <<MRes(i, g)>>
               ELSE IF n.q = "*" THEN [j \in 1..(m + 1) |-> MRes(i + m + 1 - j, g)]
               ELSE [j \in 1..(m + 1) |-> MRes(i + j - 1, g)]
        lazy == n.q \in {"*?", "+?"}
    IN CASE n.t = "lit" -> IF i <= Len(s) /\ s[i] = n.c THEN <<MRes(i + 1, g)>> ELSE <<>>
         [] n.t = "bol" -> IF AtBol(s, i) THEN <<MRes(i, g)>> ELSE <<>>
         [] n.t = "eol" -> IF AtEol(s, i) THEN <<MRes(i, g)>> ELSE <<>>
         [] n.t = "any" -> any
         [] n.t = "grp" /\ n.q \in {"*", "*?"} -> StarMatch(n, lazy, s, i, g)
         [] n.t = "grp" /\ n.q \notin {"*", "*?"} ->
              The({IF n.q = "" THEN once
                   ELSE IF n.q = "?" THEN once \o <<MRes(i, g)>>
                   ELSE ThenStar(once, n, lazy, s, i) :
                   once \in {AltMatch(n, 1, s, i, g)}})

\* The next match of an iteration over all matches (regex-automata's Searcher),
\* searching from `from` when the last match ended at lastEnd (0: none): the
\* leftmost start with a match and the preferred match there; an empty match
\* that ends where the last match ended is skipped by searching again one
\* position further.  [found, st, e, g]
NoMatch == [found |-> FALSE, st |-> 0, e |-> 0, g |-> <<>>]

RECURSIVE FindFrom(_, _, _, _)
FindFrom(re, s, from, lastEnd) ==
    IF from > Len(s) + 1 THEN NoMatch
    ELSE The({IF rs # <<>> /\ ~(rs[1].e = from /\ from = lastEnd)
              THEN [found |-> TRUE, st |-> from, e |-> rs[1].e, g |-> rs[1].g]
              ELSE FindFrom(re, s, from + 1, lastEnd) :
              rs \in {MatchSeq(re, 1, s, from, <<>>)}})

(***************************************************************************)
(* Replacers (apml/eval.rs, apply_expansion_modifier).                     *)
(***************************************************************************)
UpperOf(c) ==
    CASE c = "a" -> "A" [] c = "b" -> "B" [] c = "c" -> "C" [] OTHER -> c

LowerOf(c) ==
    CASE c = "A" -> "a" [] c = "B" -> "b" [] c = "C" -> "c" [] OTHER -> c

to_ascii_uppercase(s) == [j \in 1..Len(s) |-> UpperOf(s[j])]

to_ascii_lowercase(s) == [j \in 1..Len(s) |-> LowerOf(s[j])]

\* rep is [k, s]: "group1" (MatchReplacer(1)), "upper", "lower" or "str" (a text).
\* Indexing a group that did not take part panics.
replace_append(rep, s, m) ==
    CASE rep.k = "group1" ->
            IF m.g = <<>> THEN [panic |-> TRUE, out |-> <<>>]
            ELSE [panic |-> FALSE, out |-> SubSeq(s, m.g[1], m.g[2] - 1)]
      [] rep.k = "upper" ->
            [panic |-> FALSE, out |-> to_ascii_uppercase(SubSeq(s, m.st, m.e - 1))]
      [] rep.k = "lower" ->
            [panic |-> FALSE, out |-> to_ascii_lowercase(SubSeq(s, m.st, m.e - 1))]
      [] rep.k = "str" -> [panic |-> FALSE, out |-> rep.s]

\* Regex::replacen(s, limit, rep); limit 0 is replace_all and limit 1 replace.
\* from: where the search resumes, lastEnd: end of the last match (0: none),
\* copied: first position not yet copied, n: matches replaced so far.
RECURSIVE replacen(_, _, _, _, _, _, _, _)
replacen(re, s, limit, rep, from, lastEnd, copied, n) ==
    The({IF ~m.found \/ (limit > 0 /\ n >= limit)
         THEN [panic |-> FALSE, out |-> SubSeq(s, copied, Len(s))]
         ELSE The({IF r.panic \/ rest.panic THEN [panic |-> TRUE, out |-> <<>>]
                   ELSE [panic |-> FALSE,
                         out |-> SubSeq(s, copied, m.st - 1) \o r.out \o rest.out] :
                   r \in {replace_append(rep, s, m)},
                   rest \in {replacen(re, s, limit, rep, m.e, m.e, m.e, n + 1)}}) :
         m \in {FindFrom(re, s, from, lastEnd)}})

(***************************************************************************)
(* The AST (apml/ast.rs).  A text is a sequence of words; a word is        *)
(* [k, s, name, mod]: mod is <<>> or <<modifier>>; a modifier is           *)
(* [k, offset, length, pattern, text] with length <<>> or <<n>>.           *)
(***************************************************************************)
WLiteral(s) == [k |-> "Literal", s |-> s, name |-> <<>>, mod |-> <<>>]

WSubcommand(s) == [k |-> "Subcommand", s |-> s, name |-> <<>>, mod |-> <<>>]

WVariable(name, mod) == [k |-> "Variable", s |-> <<>>, name |-> name, mod |-> mod]

Modifier(k, offset, length, pattern, text) ==
    [k |-> k, offset |-> offset, length |-> length, pattern |-> pattern, text |-> text]

MSubstring(offset, length) == Modifier("Substring", offset, length, <<>>, <<>>)

MPattern(k, pattern) == Modifier(k, 0, <<>>, pattern, <<>>)

MReplace(k, pattern, text) == Modifier(k, 0, <<>>, pattern, text)

MText(k, text) == Modifier(k, 0, <<>>, <<>>, text)

MLength == Modifier("Length", 0, <<>>, <<>>, <<>>)

\* The kinds of modifiers, by what they carry.
StripKinds ==
    {"StripShortestPrefix", "StripLongestPrefix", "StripShortestSuffix", "StripLongestSuffix"}

CaseKinds == {"UpperOnce", "UpperAll", "LowerOnce", "LowerAll"}

ReplaceKinds == {"ReplaceOnce", "ReplaceAll", "ReplacePrefix", "ReplaceSuffix"}

TextKinds == {"ErrorOnUnset", "WhenUnset", "WhenSet"}

PatternKinds == StripKinds \cup ReplaceKinds \cup CaseKinds

(***************************************************************************)
(* The evaluator (apml/eval.rs).  A result is [st, v]: st is "ok",         *)
(* "unset" (EvalError::Unset), "regex" (EvalError::RegexError) or "panic". *)
(***************************************************************************)
Ok(v) == [st |-> "ok", v |-> v]

Fail(st, v) == [st |-> st, v |-> v]

\* usize::to_string
RECURSIVE ToDecimal(_)
ToDecimal(n) ==
    LET d == <<"0", "1", "2", "3", "4", "5", "6", "7", "8", "9">>
    IN IF n < 10 THEN <<d[n + 1]>> ELSE Append(ToDecimal(n \div 10), d[(n % 10) + 1])

\* ApmlContext.variables.get(name).cloned().unwrap_or_default()
get_or_default(apml, name) == IF name \in DOMAIN apml THEN apml[name] ELSE ValDefault

\* &value[a..b]: a slice out of range panics.
slice_checked(value, a, b) ==
    IF a <= b /\ b <= Len(value) THEN Ok(Slice(value, a, b)) ELSE Fail("panic", <<>>)

\* The Substring arm of apply_expansion_modifier.  The subtraction
\* value.len() - (-length) overflows when -length > len: a panic in a debug
\* build, and in a release build a huge end bound, so a panic of the slice.
substring(value, offset, length) ==
    IF length # <<>>
    THEN IF length[1] > 0
         THEN slice_checked(value, offset, Min(offset + length[1], Len(value)))
         ELSE IF -length[1] > Len(value) THEN Fail("panic", <<>>)
              ELSE slice_checked(value, offset, Len(value) - (-length[1]))
    ELSE slice_checked(value, offset, Len(value))

CapAll(q) == RCap(<< <<RAny(q)>> >>, "")

RepGroup1 == [k |-> "group1", s |-> <<>>]

RepStr(s) == [k |-> "str", s |-> s]

RepUpper == [k |-> "upper", s |-> <<>>]

RepLower == [k |-> "lower", s |-> <<>>]

\* The arguments of to_regex, the replacer and the replace method of each arm
\* of apply_expansion_modifier that compiles its pattern; text: the replacer
\* is the evaluated text of the modifier, put in place of rep.
PatternArm(before, after, greedy, rep, all, text) ==
    [before |-> before, after |-> after, greedy |-> greedy, rep |-> rep,
     all |-> all, text |-> text]

pattern_arm(k) ==
    CASE k = "StripShortestPrefix" ->
           PatternArm(<<RBol, ROpen>>, <<RClose("?"), CapAll("*"), REol>>, FALSE,
                      RepGroup1, FALSE, FALSE)
      [] k = "StripLongestPrefix" ->
           PatternArm(<<RBol, ROpen>>, <<RClose("?"), CapAll("*?"), REol>>, TRUE,
                      RepGroup1, FALSE, FALSE)
      [] k = "StripShortestSuffix" ->
           PatternArm(<<RBol, CapAll("*"), ROpen>>, <<RClose(""), REol>>, FALSE,
                      RepGroup1, FALSE, FALSE)
      [] k = "StripLongestSuffix" ->
           PatternArm(<<RBol, CapAll("*?"), ROpen>>, <<RClose(""), REol>>, TRUE,
                      RepGroup1, FALSE, FALSE)
      [] k = "ReplaceOnce" -> PatternArm(<<>>, <<>>, TRUE, RepStr(<<>>), FALSE, TRUE)
      [] k = "ReplaceAll" -> PatternArm(<<>>, <<>>, TRUE, RepStr(<<>>), TRUE, TRUE)
      [] k = "ReplacePrefix" -> PatternArm(<<RBol>>, <<>>, TRUE, RepStr(<<>>), TRUE, TRUE)
      [] k = "ReplaceSuffix" -> PatternArm(<<>>, <<REol>>, TRUE, RepStr(<<>>), TRUE, TRUE)
      [] k = "UpperOnce" -> PatternArm(<<>>, <<>>, TRUE, RepUpper, FALSE, FALSE)
      [] k = "UpperAll" -> PatternArm(<<>>, <<>>, TRUE, RepUpper, TRUE, FALSE)
      [] k = "LowerOnce" -> PatternArm(<<>>, <<>>, TRUE, RepLower, FALSE, FALSE)
      [] k = "LowerAll" -> PatternArm(<<>>, <<>>, TRUE, RepLower, TRUE, FALSE)

\* `pattern.to_regex(..)?.replace(&value, rep)` or `.replace_all(&value, rep)`:
\* rx is the outcome of to_regex and txt that of eval_text on the modifier's
\* text, which is evaluated after `to_regex(..)?`.
run_regex(rx, str, arm, txt) ==
    IF rx.st = "panic" THEN Fail("panic", <<>>)
    ELSE IF rx.st = "err" THEN Fail("regex", <<>>)
    ELSE IF arm.text /\ txt.st # "ok" THEN txt
    ELSE The({IF r.panic THEN Fail("panic", <<>>) ELSE Ok(r.out) :
              r \in {replacen(rx.re, str, IF arm.all THEN 0 ELSE 1,
                              IF arm.text THEN RepStr(txt.v) ELSE arm.rep,
                              1, 0, 1, 0)}})

RECURSIVE eval_text(_, _), eval_word(_, _), apply_expansion_modifier(_, _, _)

eval_text(apml, text) ==
    IF text = <<>> THEN Ok(<<>>)
    ELSE The({IF h.st # "ok" THEN h
              ELSE IF r.st # "ok" THEN r
              ELSE Ok(h.v \o r.v) :
              h \in {eval_word(apml, Head(text))}, r \in {eval_text(apml, Tail(text))}})

eval_word(apml, word) ==
    IF word.k \in {"Literal", "Subcommand"} THEN Ok(word.s)
    ELSE IF word.mod # <<>>
         THEN apply_expansion_modifier(apml, word.mod[1], get_or_default(apml, word.name))
         ELSE Ok(into_string(get_or_default(apml, word.name)))

apply_expansion_modifier(apml, modifier, value) ==
    The({CASE modifier.k = "Substring" ->
                substring(into_string(value), modifier.offset, modifier.length)
           [] modifier.k \in PatternKinds ->
                The({run_regex(to_regex(modifier.pattern, arm.before, arm.after, arm.greedy),
                               into_string(value), arm, txt) :
                     arm \in {pattern_arm(modifier.k)}})
           [] modifier.k = "ErrorOnUnset" ->
                IF value_is_empty(value)
                THEN IF txt.st # "ok" THEN txt ELSE Fail("unset", txt.v)
                ELSE Ok(into_string(value))
           [] modifier.k = "Length" -> Ok(ToDecimal(value_len(value)))
           [] modifier.k = "WhenUnset" ->
                IF value_is_empty(value) THEN txt ELSE Ok(into_string(value))
           [] modifier.k = "WhenSet" ->
                IF ~value_is_empty(value) THEN txt ELSE Ok(into_string(value)) :
         txt \in {eval_text(apml, modifier.text)}})

(***************************************************************************)
(* The LST (apml/lst.rs).  Every node is a record with the fields of all   *)
(* the variants of its type; the fields a variant has no use for are empty.*)
(***************************************************************************)
\* LiteralPart
LString(s) == [k |-> "String", s |-> s]

LEscaped(c) == [k |-> "Escaped", s |-> <<c>>]

LLineContinuation == [k |-> "LineContinuation", s |-> <<>>]

\* Word
LWord(k, parts, name, mod, tokens) ==
    [k |-> k, parts |-> parts, name |-> name, mod |-> mod, tokens |-> tokens]

LwLiteral(parts) == LWord("Literal", parts, <<>>, <<>>, <<>>)

LwUnbraced(name) == LWord("UnbracedVariable", <<>>, name, <<>>, <<>>)

\* mod is the Option: <<>> or <<modifier>>
LwBraced(name, mod) == LWord("BracedVariable", <<>>, name, mod, <<>>)

LwSubcommand(tokens) == LWord("Subcommand", <<>>, <<>>, <<>>, tokens)

\* TextUnit; a Text is a sequence of units
UUnquoted(words) == [k |-> "Unquoted", words |-> words, s |-> <<>>]

USingleQuote(s) == [k |-> "SingleQuote", words |-> <<>>, s |-> s]

UDoubleQuote(words) == [k |-> "DoubleQuote", words |-> words, s |-> <<>>]

\* ExpansionModifier: offset is a text, length and string are Options
LModifier(k, offset, length, pattern, string, text) ==
    [k |-> k, offset |-> offset, length |-> length, pattern |-> pattern,
     string |-> string, text |-> text]

LmSubstring(offset, length) == LModifier("Substring", offset, length, <<>>, <<>>, <<>>)

LmPattern(k, pattern) == LModifier(k, <<>>, <<>>, pattern, <<>>, <<>>)

LmReplace(k, pattern, string) == LModifier(k, <<>>, <<>>, pattern, string, <<>>)

LmText(k, text) == LModifier(k, <<>>, <<>>, <<>>, <<>>, text)

LmPlain(k) == LModifier(k, <<>>, <<>>, <<>>, <<>>, <<>>)

\* ArrayToken
ASpacy(c) == [k |-> "Spacy", s |-> <<c>>, text |-> <<>>]

ANewline == [k |-> "Newline", s |-> <<>>, text |-> <<>>]

AComment(s) == [k |-> "Comment", s |-> s, text |-> <<>>]

AElement(text) == [k |-> "Element", s |-> <<>>, text |-> text]

\* VariableValue
LvString(text) == [k |-> "String", text |-> text, tokens |-> <<>>]

LvArray(tokens) == [k |-> "Array", text |-> <<>>, tokens |-> tokens]

\* filler for the value field of tokens that are not variable definitions
LvNone == [k |-> "None", text |-> <<>>, tokens |-> <<>>]

\* Token; op is "=" (VariableOp::Assignment) or "+=" (VariableOp::Append)
TSpacy(c) == [k |-> "Spacy", s |-> <<c>>, name |-> <<>>, op |-> "", value |-> LvNone]

TNewline == [k |-> "Newline", s |-> <<>>, name |-> <<>>, op |-> "", value |-> LvNone]

TComment(s) == [k |-> "Comment", s |-> s, name |-> <<>>, op |-> "", value |-> LvNone]

TVariable(name, op, value) ==
    [k |-> "Variable", s |-> <<>>, name |-> name, op |-> op, value |-> value]

(***************************************************************************)
(* Display: the text of a node (apml/lst.rs and apml/pattern.rs).          *)
(***************************************************************************)
RECURSIVE BashPattern_fmt(_), GlobPart_fmt(_), PatternList_fmt(_)

BashPattern_fmt(p) == Concat([j \in 1..Len(p) |-> GlobPart_fmt(p[j])])

PatternList_fmt(l) == JoinWith([j \in 1..Len(l) |-> BashPattern_fmt(l[j])], <<"|">>)

ListSigil(k) ==
    CASE k = "ZeroOrOneOf" -> "?" [] k = "ZeroOrMoreOf" -> "*"
      [] k = "OneOrMoreOf" -> "+" [] k = "OneOf" -> "@" [] k = "Not" -> "!"

GlobPart_fmt(part) ==
    CASE part.k = "String" -> part.s
      [] part.k = "Escaped" -> <<"\\">> \o part.s
      [] part.k = "AnyString" -> <<"*">>
      [] part.k = "AnyChar" -> <<"?">>
      [] part.k = "Range" -> <<"[">> \o part.s \o <<"]">>
      [] part.k \in ListKinds ->
           <<ListSigil(part.k), "(">> \o PatternList_fmt(part.l) \o <<")">>

LiteralPart_fmt(part) ==
    CASE part.k = "String" -> part.s
      [] part.k = "Escaped" -> <<"\\">> \o part.s
      [] part.k = "LineContinuation" -> <<"\\", "\n">>

\* The characters a modifier starts with.
ModifierSigil(k) ==
    CASE k = "StripShortestPrefix" -> <<"#">>
      [] k = "StripLongestPrefix" -> <<"#", "#">>
      [] k = "StripShortestSuffix" -> <<"%">>
      [] k = "StripLongestSuffix" -> <<"%", "%">>
      [] k = "ReplaceOnce" -> <<"/">>
      [] k = "ReplaceAll" -> <<"/", "/">>
      [] k = "ReplacePrefix" -> <<"/", "#">>
      [] k = "ReplaceSuffix" -> <<"/", "%">>
      [] k = "UpperOnce" -> <<"^">>
      [] k = "UpperAll" -> <<"^", "^">>
      [] k = "LowerOnce" -> <<",">>
      [] k = "LowerAll" -> <<",", ",">>
      [] k = "ErrorOnUnset" -> <<":", "?">>
      [] k = "WhenUnset" -> <<":", "-">>
      [] k = "WhenSet" -> <<":", "+">>

RECURSIVE Text_fmt(_), TextUnit_fmt(_), Word_fmt(_), BracedExpansion_fmt(_, _),
          ExpansionModifier_fmt(_), ArrayToken_fmt(_)

Text_fmt(text) == Concat([j \in 1..Len(text) |-> TextUnit_fmt(text[j])])

TextUnit_fmt(unit) ==
    CASE unit.k = "Unquoted" -> Concat([j \in 1..Len(unit.words) |-> Word_fmt(unit.words[j])])
      [] unit.k = "SingleQuote" -> <<"'">> \o unit.s \o <<"'">>
      [] unit.k = "DoubleQuote" ->
           <<"\"">> \o Concat([j \in 1..Len(unit.words) |-> Word_fmt(unit.words[j])])
           \o <<"\"">>

Word_fmt(word) ==
    CASE word.k = "Literal" ->
           Concat([j \in 1..Len(word.parts) |-> LiteralPart_fmt(word.parts[j])])
      [] word.k = "UnbracedVariable" -> <<"$">> \o word.name
      [] word.k = "BracedVariable" ->
           <<"$", "{">> \o BracedExpansion_fmt(word.name, word.mod) \o <<"}">>
      [] word.k = "Subcommand" ->
           <<"$", "(">> \o Concat([j \in 1..Len(word.tokens) |-> ArrayToken_fmt(word.tokens[j])])
           \o <<")">>

BracedExpansion_fmt(name, mod) ==
    IF mod = <<>> THEN name
    ELSE IF mod[1].k = "Length" THEN <<"#">> \o name
    ELSE name \o ExpansionModifier_fmt(mod[1])

ExpansionModifier_fmt(m) ==
    CASE m.k = "Substring" ->
           IF m.length = <<>> THEN <<":">> \o m.offset
           ELSE <<":">> \o m.offset \o <<":">> \o m.length[1]
      [] m.k \in StripKinds \cup CaseKinds -> ModifierSigil(m.k) \o BashPattern_fmt(m.pattern)
      [] m.k \in ReplaceKinds ->
           IF m.string = <<>> THEN ModifierSigil(m.k) \o BashPattern_fmt(m.pattern)
           ELSE ModifierSigil(m.k) \o BashPattern_fmt(m.pattern) \o <<"/">>
                \o Text_fmt(m.string[1])
      [] m.k \in TextKinds -> ModifierSigil(m.k) \o Text_fmt(m.text)
      [] m.k = "Length" -> <<"#">>
      [] m.k = "ArrayElements" -> <<"[", "@", "]">>
      [] m.k = "SingleWordElements" -> <<"[", "*", "]">>

ArrayToken_fmt(token) ==
    CASE token.k = "Spacy" -> token.s
      [] token.k = "Newline" -> <<"\n">>
      [] token.k = "Comment" -> <<"#">> \o token.s
      [] token.k = "Element" -> Text_fmt(token.text)

VariableOp_fmt(op) == IF op = "=" THEN <<"=">> ELSE <<"+", "=">>

VariableValue_fmt(value) ==
    IF value.k = "String" THEN Text_fmt(value.text)
    ELSE <<"(">> \o Concat([j \in 1..Len(value.tokens) |-> ArrayToken_fmt(value.tokens[j])])
         \o <<")">>

VariableDefinition_fmt(def) ==
    def.name \o VariableOp_fmt(def.op) \o VariableValue_fmt(def.value)

Token_fmt(token) ==
    CASE token.k = "Spacy" -> token.s
      [] token.k = "Newline" -> <<"\n">>
      [] token.k = "Comment" -> <<"#">> \o token.s
      [] token.k = "Variable" -> VariableDefinition_fmt(token)

ApmlLst_fmt(tokens) == Concat([j \in 1..Len(tokens) |-> Token_fmt(tokens[j])])

(***************************************************************************)
(* Parser combinators.  A result is [ok, v, rest]: whether the parser      *)
(* matched, what it made and the input it left.                            *)
(***************************************************************************)
PErr == [ok |-> FALSE, v |-> <<>>, rest |-> <<>>]

POk(v, rest) == [ok |-> TRUE, v |-> v, rest |-> rest]

\* tag(t)
starts_with(i, t) == Len(i) >= Len(t) /\ SubSeq(i, 1, Len(t)) = t

drop(i, n) == SubSeq(i, n + 1, Len(i))

\* The length of the longest prefix of i made of characters of S, and of
\* characters outside S.
RECURSIVE run_in(_, _)
run_in(i, S) == IF i # <<>> /\ Head(i) \in S THEN 1 + run_in(Tail(i), S) ELSE 0

RECURSIVE run_out(_, _)
run_out(i, S) == IF i # <<>> /\ Head(i) \notin S THEN 1 + run_out(Tail(i), S) ELSE 0

\* take_while1 of the characters outside S
take_while1_out(i, S) ==
    The({IF n = 0 THEN PErr ELSE POk(SubSeq(i, 1, n), drop(i, n)) : n \in {run_out(i, S)}})

(***************************************************************************)
(* Parsing a pattern (apml/pattern.rs).  exclude is the set of characters  *)
(* that end a literal.                                                     *)
(***************************************************************************)
ExtglobKind(c) ==
    CASE c = "?" -> "ZeroOrOneOf" [] c = "*" -> "ZeroOrMoreOf"
      [] c = "+" -> "OneOrMoreOf" [] c = "@" -> "OneOf" [] c = "!" -> "Not"

RECURSIVE bash_pattern_loop(_, _, _), pattern_part(_, _), pattern_list_loop(_, _)

\* many1(pattern_part)
bash_pattern_loop(i, exclude, parts) ==
    The({IF ~r.ok THEN (IF parts = <<>> THEN PErr ELSE POk(parts, i))
         ELSE bash_pattern_loop(r.rest, exclude, Append(parts, r.v)) :
         r \in {pattern_part(i, exclude)}})

bash_pattern(i, exclude) == bash_pattern_loop(i, exclude, <<>>)

\* many0(terminated(bash_pattern(i, "|)"), opt(char('|'))))
pattern_list_loop(i, patterns) ==
    The({IF ~r.ok THEN POk(patterns, i)
         ELSE pattern_list_loop(IF starts_with(r.rest, <<"|">>) THEN drop(r.rest, 1)
                                ELSE r.rest,
                                Append(patterns, r.v)) :
         r \in {bash_pattern(i, {"|", ")"})}})

pattern_list(i) == pattern_list_loop(i, <<>>)

\* The alternatives of pattern_part after the extglob forms.
plain_pattern_part(i, exclude) ==
    CASE Head(i) = "*" -> POk(GAnyString, drop(i, 1))
      [] Head(i) = "?" -> POk(GAnyChar, drop(i, 1))
      [] Head(i) = "[" ->
           \* take_until1("]") and the bracket
           The({IF n = 0 \/ n + 1 = Len(i) THEN PErr
                ELSE POk(GRange(SubSeq(i, 2, n + 1)), drop(i, n + 2)) :
                n \in {run_out(Tail(i), {"]"})}})
      [] OTHER ->
           The({IF ~s.ok THEN PErr ELSE POk(GString(s.v), s.rest) :
                s \in {take_while1_out(i, {"[", "*", "?", "\\"} \cup exclude)}})

pattern_part(i, exclude) ==
    IF i = <<>> THEN PErr
    ELSE IF Head(i) = "\\"
    THEN (IF Len(i) >= 2 THEN POk(GEscaped(i[2]), drop(i, 2)) ELSE PErr)
    ELSE IF Len(i) >= 2 /\ i[2] = "(" /\ Head(i) \in {"?", "*", "+", "@", "!"}
    THEN The({IF starts_with(l.rest, <<")">>)
              THEN POk(GList(ExtglobKind(Head(i)), l.v), drop(l.rest, 1))
              ELSE plain_pattern_part(i, exclude) :
              l \in {pattern_list(drop(i, 2))}})
    ELSE plain_pattern_part(i, exclude)

(***************************************************************************)
(* Parsing a source text (apml/parser.rs).  cond, the characters a literal *)
(* may hold, is given as the set of those it may not.  A pattern is parsed *)
(* by bash_pattern.                                                        *)
(***************************************************************************)
\* The characters of the sources that are alphanumeric or '_'
NameChars == {"a", "b", "c", "d", "x", "1", "2", "_"}

\* ch.is_ascii_digit() || " \n-\t".contains(ch)
NumberChars == {"0", "1", "2", "3", "4", "5", "6", "7", "8", "9", " ", "\n", "-", "\t"}

\* variable_name
variable_name(i) ==
    The({IF n = 0 THEN PErr ELSE POk(SubSeq(i, 1, n), drop(i, n)) :
         n \in {run_in(i, NameChars)}})

\* literal_part
literal_part(i, excluded) ==
    IF starts_with(i, <<"\\", "\n">>) THEN POk(LLineContinuation, drop(i, 2))
    ELSE IF starts_with(i, <<"\\">>)
    THEN (IF Len(i) >= 2 THEN POk(LEscaped(i[2]), drop(i, 2)) ELSE PErr)
    ELSE The({IF ~s.ok THEN PErr ELSE POk(LString(s.v), s.rest) :
              s \in {take_while1_out(i, {"$", "\"", "\\"} \cup excluded)}})

\* many1(literal_part)
RECURSIVE literal_parts(_, _, _)
literal_parts(i, excluded, parts) ==
    The({IF ~r.ok THEN (IF parts = <<>> THEN PErr ELSE POk(parts, i))
         ELSE literal_parts(r.rest, excluded, Append(parts, r.v)) :
         r \in {literal_part(i, excluded)}})

\* The modifiers expansion_modifier tries in turn: the tag, the variant, and
\* what follows the tag.
ModifierForms ==
    << [tag |-> <<"#", "#">>, k |-> "StripLongestPrefix", form |-> "glob"],
       [tag |-> <<"#">>, k |-> "StripShortestPrefix", form |-> "glob"],
       [tag |-> <<"%", "%">>, k |-> "StripLongestSuffix", form |-> "glob"],
       [tag |-> <<"%">>, k |-> "StripShortestSuffix", form |-> "glob"],
       [tag |-> <<"/", "/">>, k |-> "ReplaceAll", form |-> "replace"],
       [tag |-> <<"/", "#">>, k |-> "ReplacePrefix", form |-> "replace"],
       [tag |-> <<"/", "%">>, k |-> "ReplaceSuffix", form |-> "replace"],
       [tag |-> <<"/">>, k |-> "ReplaceOnce", form |-> "replace"],
       [tag |-> <<"^", "^">>, k |-> "UpperAll", form |-> "glob"],
       [tag |-> <<"^">>, k |-> "UpperOnce", form |-> "glob"],
       [tag |-> <<",", ",">>, k |-> "LowerAll", form |-> "glob"],
       [tag |-> <<",">>, k |-> "LowerOnce", form |-> "glob"],
       [tag |-> <<":", "?">>, k |-> "ErrorOnUnset", form |-> "text"],
       [tag |-> <<":", "-">>, k |-> "WhenUnset", form |-> "text"],
       [tag |-> <<":", "+">>, k |-> "WhenSet", form |-> "text"],
       [tag |-> <<"[", "@", "]">>, k |-> "ArrayElements", form |-> "plain"],
       [tag |-> <<"[", "*", "]">>, k |-> "SingleWordElements", form |-> "plain"] >>

\* number, in substring_expansion_modifier
number(i) ==
    The({IF n = 0 THEN PErr ELSE POk(SubSeq(i, 1, n), drop(i, n)) :
         n \in {run_in(i, NumberChars)}})

\* substring_expansion_modifier
substring_expansion_modifier(i) ==
    IF ~starts_with(i, <<":">>) THEN PErr
    ELSE The({IF ~offset.ok THEN PErr
              ELSE IF ~starts_with(offset.rest, <<":">>)
              THEN POk(LmSubstring(offset.v, <<>>), offset.rest)
              ELSE The({IF ~length.ok THEN POk(LmSubstring(offset.v, <<>>), offset.rest)
                        ELSE POk(LmSubstring(offset.v, <<length.v>>), length.rest) :
                        length \in {number(drop(offset.rest, 1))}}) :
              offset \in {number(drop(i, 1))}})

RECURSIVE text_loop(_, _, _), text_unit(_, _), words(_, _, _), parse_word(_, _),
          braced_expansion(_), modifier_forms(_, _), modifier_form(_, _)

\* text: many0(text_unit)
text_loop(i, excluded, units) ==
    The({IF ~r.ok THEN POk(units, i)
         ELSE text_loop(r.rest, excluded, Append(units, r.v)) :
         r \in {text_unit(i, excluded)}})

\* many0(word) and many1(word): the words, none being an error for many1 only
words(i, excluded, ws) ==
    The({IF ~r.ok THEN POk(ws, i)
         ELSE words(r.rest, excluded, Append(ws, r.v)) :
         r \in {parse_word(i, excluded)}})

text_unit(i, excluded) ==
    IF starts_with(i, <<"'">>)
    THEN The({IF n + 1 < Len(i)
              THEN POk(USingleQuote(SubSeq(i, 2, n + 1)), drop(i, n + 2))
              ELSE PErr :
              n \in {run_out(Tail(i), {"'"})}})
    ELSE IF starts_with(i, <<"\"">>)
    THEN The({IF starts_with(ws.rest, <<"\"">>)
              THEN POk(UDoubleQuote(ws.v), drop(ws.rest, 1))
              ELSE PErr :
              ws \in {words(Tail(i), {}, <<>>)}})
    ELSE The({IF ws.v = <<>> THEN PErr ELSE POk(UUnquoted(ws.v), ws.rest) :
              ws \in {words(i, excluded \cup {"'", "\n"}, <<>>)}})

\* word
parse_word(i, excluded) ==
    The({IF braced.ok THEN braced
         ELSE IF starts_with(i, <<"$">>)
         THEN The({IF ~name.ok THEN PErr ELSE POk(LwUnbraced(name.v), name.rest) :
                   name \in {variable_name(Tail(i))}})
         ELSE The({IF ~parts.ok THEN PErr ELSE POk(LwLiteral(parts.v), parts.rest) :
                   parts \in {literal_parts(i, excluded, <<>>)}}) :
         braced \in {IF starts_with(i, <<"$", "{">>)
                     THEN The({IF exp.ok /\ starts_with(exp.rest, <<"}">>)
                               THEN POk(exp.v, drop(exp.rest, 1)) ELSE PErr :
                               exp \in {braced_expansion(drop(i, 2))}})
                     ELSE PErr}})

braced_expansion(i) ==
    The({IF length.ok THEN POk(LwBraced(length.v, <<LmPlain("Length")>>), length.rest)
         ELSE The({IF ~name.ok THEN PErr
                   ELSE The({IF ~m.ok THEN POk(LwBraced(name.v, <<>>), name.rest)
                             ELSE POk(LwBraced(name.v, <<m.v>>), m.rest) :
                             m \in {modifier_forms(name.rest, 1)}}) :
                   name \in {variable_name(i)}}) :
         length \in {IF starts_with(i, <<"#">>) THEN variable_name(Tail(i)) ELSE PErr}})

\* expansion_modifier: the alternatives from the j-th
modifier_forms(i, j) ==
    IF j > Len(ModifierForms) THEN substring_expansion_modifier(i)
    ELSE The({IF r.ok THEN r ELSE modifier_forms(i, j + 1) :
              r \in {IF starts_with(i, ModifierForms[j].tag)
                     THEN modifier_form(drop(i, Len(ModifierForms[j].tag)), ModifierForms[j])
                     ELSE PErr}})

\* What follows the tag: expansion_glob, expansion_glob_replace and an
\* optional expansion_text, or expansion_text; nothing after `[@]` and `[*]`.
modifier_form(i, f) ==
    IF f.form = "plain" THEN POk(LmPlain(f.k), i)
    ELSE IF f.form = "text"
    THEN The({POk(LmText(f.k, tx.v), tx.rest) : tx \in {text_loop(i, {"}"}, <<>>)}})
    ELSE The({IF ~pattern.ok THEN PErr
              ELSE IF f.form = "glob" THEN POk(LmPattern(f.k, pattern.v), pattern.rest)
              ELSE IF ~starts_with(pattern.rest, <<"/">>)
              THEN POk(LmReplace(f.k, pattern.v, <<>>), pattern.rest)
              ELSE The({POk(LmReplace(f.k, pattern.v, <<tx.v>>), tx.rest) :
                        tx \in {text_loop(drop(pattern.rest, 1), {"}"}, <<>>)}}) :
              pattern \in {bash_pattern(i, IF f.form = "glob" THEN {"}"} ELSE {"}", "/"})}})

\* text
parse_text(i, excluded) == text_loop(i, excluded, <<>>)

\* The tokens of an array value: a blank, a newline, a comment to the end of
\* its line, or an element, a text that ends at a blank, `#` or `)`.
array_token(i) ==
    IF i = <<>> THEN PErr
    ELSE IF Head(i) \in {" ", "\t"} THEN POk(ASpacy(Head(i)), Tail(i))
    ELSE IF Head(i) = "\n" THEN POk(ANewline, Tail(i))
    ELSE IF Head(i) = "#"
    THEN The({POk(AComment(SubSeq(i, 2, n + 1)), drop(i, n + 1)) :
              n \in {run_out(Tail(i), {"\n"})}})
    ELSE The({IF tx.v = <<>> THEN PErr ELSE POk(AElement(tx.v), tx.rest) :
              tx \in {parse_text(i, {" ", "\t", "#", ")"})}})

\* many0(array_token)
RECURSIVE array_tokens(_, _)
array_tokens(i, ts) ==
    The({IF ~r.ok THEN POk(ts, i) ELSE array_tokens(r.rest, Append(ts, r.v)) :
         r \in {array_token(i)}})

\* An array value: `(`, its tokens and `)`.
array_value(i) ==
    IF ~starts_with(i, <<"(">>) THEN PErr
    ELSE The({IF starts_with(r.rest, <<")">>) THEN POk(LvArray(r.v), drop(r.rest, 1))
              ELSE PErr :
              r \in {array_tokens(Tail(i), <<>>)}})

\* variable_value: an array, or else a text that ends at a space or `#`
variable_value(i) ==
    The({IF a.ok THEN a
         ELSE The({POk(LvString(tx.v), tx.rest) : tx \in {parse_text(i, {" ", "#"})}}) :
         a \in {array_value(i)}})

\* The operator after the name: `=` or `+=`.
variable_op(i) ==
    IF starts_with(i, <<"=">>) THEN POk("=", drop(i, 1))
    ELSE IF starts_with(i, <<"+", "=">>) THEN POk("+=", drop(i, 2))
    ELSE PErr

\* variable_def: the name, the operator and variable_value
variable_def(i) ==
    The({IF ~name.ok THEN PErr
         ELSE The({IF ~op.ok THEN PErr
                   ELSE The({POk(TVariable(name.v, op.v, value.v), value.rest) :
                             value \in {variable_value(op.rest)}}) :
                   op \in {variable_op(name.rest)}}) :
         name \in {variable_name(i)}})

\* token
parse_token(i) ==
    IF i = <<>> THEN PErr
    ELSE IF Head(i) \in {" ", "\t"} THEN POk(TSpacy(Head(i)), Tail(i))
    ELSE IF Head(i) = "\n" THEN POk(TNewline, Tail(i))
    ELSE IF Head(i) = "#"
    THEN The({POk(TComment(SubSeq(i, 2, n + 1)), drop(i, n + 1)) :
              n \in {run_out(Tail(i), {"\n"})}})
    ELSE variable_def(i)

\* many0(token)
RECURSIVE apml_lst_loop(_, _)
apml_lst_loop(i, ts) ==
    The({IF ~r.ok THEN POk(ts, i) ELSE apml_lst_loop(r.rest, Append(ts, r.v)) :
         r \in {parse_token(i)}})

\* char::len_utf8 of the characters of the sources: all of them ASCII but é
len_utf8(ch) == IF ch = "é" THEN 2 ELSE 1

\* str::len: the length of a text in bytes
RECURSIVE str_len(_)
str_len(s) == IF s = <<>> THEN 0 ELSE len_utf8(Head(s)) + str_len(Tail(s))

\* nom::Offset::offset(src, out) for &str: the distance in bytes from the
\* start of src to the start of its suffix out
offset(src, out) == str_len(src) - str_len(out)

\* ApmlLst::parse (apml/lst.rs): [st, v, pos]
ApmlLst_parse(src) ==
    The({IF r.rest # <<>>
         THEN [st |-> "UnexpectedSource", v |-> <<>>, pos |-> offset(src, r.rest) + 1]
         ELSE [st |-> "ok", v |-> r.v, pos |-> 0] :
         r \in {apml_lst_loop(src, <<>>)}})

(***************************************************************************)
(* AST values, array elements and definitions (apml/ast.rs).               *)
(***************************************************************************)
AvString(text) == [k |-> "String", text |-> text, elements |-> <<>>]

AvArray(elements) == [k |-> "Array", text |-> <<>>, elements |-> elements]

AeInclusion(name) == [k |-> "ArrayInclusion", name |-> name, text |-> <<>>]

AeText(text) == [k |-> "Text", name |-> <<>>, text |-> text]

ADefinition(name, value) == [name |-> name, value |-> value]

(***************************************************************************)
(* emit_from: LST to AST (apml/ast.rs).  A result is [st, v, e]: st is     *)
(* "ok" or "err" and e the EmitError.                                      *)
(***************************************************************************)
EOk(v) == [st |-> "ok", v |-> v, e |-> ""]

EErr(e) == [st |-> "err", v |-> <<>>, e |-> e]

\* The results of a loop that emits each item and leaves at the first error
\* with `?`: the error, or the values.
EmitAll(rs) ==
    IF \E j \in 1..Len(rs) : rs[j].st # "ok"
    THEN rs[CHOOSE j \in 1..Len(rs) :
                rs[j].st # "ok" /\ \A h \in 1..(j - 1) : rs[h].st = "ok"]
    ELSE EOk([j \in 1..Len(rs) |-> rs[j].v])

Digits == <<"0", "1", "2", "3", "4", "5", "6", "7", "8", "9">>

IsDigit(c) == \E d \in 1..10 : Digits[d] = c

DigitVal(c) == (CHOOSE d \in 1..10 : Digits[d] = c) - 1

RECURSIVE DigitsVal(_)
DigitsVal(s) ==
    IF s = <<>> THEN 0 ELSE DigitsVal(SubSeq(s, 1, Len(s) - 1)) * 10 + DigitVal(s[Len(s)])

\* str::trim
RECURSIVE trim(_)
trim(s) ==
    IF s # <<>> /\ IsBlank(Head(s)) THEN trim(Tail(s))
    ELSE IF s # <<>> /\ IsBlank(s[Len(s)]) THEN trim(SubSeq(s, 1, Len(s) - 1))
    ELSE s

\* str::parse::<isize>: an optional sign and at least one digit.
parse_isize(s) ==
    LET signed == s # <<>> /\ Head(s) \in {"+", "-"}
        digits == IF signed THEN Tail(s) ELSE s
    IN IF digits = <<>> \/ \E j \in 1..Len(digits) : ~IsDigit(digits[j])
       THEN EErr("UnparsableInt")
       ELSE EOk(IF signed /\ Head(s) = "-" THEN -DigitsVal(digits) ELSE DigitsVal(digits))

\* emit_literal_part
emit_literal_part(part) == IF part.k = "LineContinuation" THEN <<>> ELSE part.s

RECURSIVE Text_emit_from(_), emit_text_unit(_), Word_emit_from(_),
          VariableExpansion_emit_from(_, _), ExpansionModifier_emit_from(_)

Text_emit_from(text) ==
    The({IF units.st # "ok" THEN units ELSE EOk(Concat(units.v)) :
         units \in {EmitAll([j \in 1..Len(text) |-> emit_text_unit(text[j])])}})

emit_text_unit(unit) ==
    IF unit.k = "SingleQuote" THEN EOk(<<WLiteral(unit.s)>>)
    ELSE EmitAll([j \in 1..Len(unit.words) |-> Word_emit_from(unit.words[j])])

Word_emit_from(word) ==
    CASE word.k = "Literal" ->
           IF Len(word.parts) = 1
           THEN EOk(WLiteral(IF word.parts[1].k = "LineContinuation" THEN <<>>
                             ELSE word.parts[1].s))
           ELSE EOk(WLiteral(Concat([j \in 1..Len(word.parts) |->
                                        emit_literal_part(word.parts[j])])))
      [] word.k = "UnbracedVariable" -> EOk(WVariable(word.name, <<>>))
      [] word.k = "BracedVariable" -> VariableExpansion_emit_from(word.name, word.mod)
      [] word.k = "Subcommand" -> EOk(WSubcommand(Word_fmt(word)))

VariableExpansion_emit_from(name, mod) ==
    IF mod = <<>> \/ mod[1].k \in {"SingleWordElements", "ArrayElements"}
    THEN EOk(WVariable(name, <<>>))
    ELSE The({IF m.st # "ok" THEN m ELSE EOk(WVariable(name, <<m.v>>)) :
              m \in {ExpansionModifier_emit_from(mod[1])}})

ExpansionModifier_emit_from(m) ==
    CASE m.k = "Substring" ->
           The({IF o.st # "ok" THEN o
                ELSE IF m.length = <<>> THEN EOk(MSubstring(Max(o.v, 0), <<>>))
                ELSE The({IF l.st # "ok" THEN l ELSE EOk(MSubstring(Max(o.v, 0), <<l.v>>)) :
                          l \in {parse_isize(trim(m.length[1]))}}) :
                o \in {parse_isize(trim(m.offset))}})
      [] m.k \in StripKinds \cup CaseKinds -> EOk(MPattern(m.k, m.pattern))
      [] m.k = "Length" -> EOk(MLength)
      [] m.k \in {"ArrayElements", "SingleWordElements"} -> EErr("Unrepresentable")
      [] m.k \in ReplaceKinds \cup TextKinds ->
           \* Text::default() stands for a replacement string left out
           The({IF tx.st # "ok" THEN tx
                ELSE IF m.k \in ReplaceKinds THEN EOk(MReplace(m.k, m.pattern, tx.v))
                ELSE EOk(MText(m.k, tx.v)) :
                tx \in {Text_emit_from(IF m.k \in TextKinds THEN m.text
                                       ELSE IF m.string = <<>> THEN <<>>
                                       ELSE m.string[1])}})

\* ArrayElement::emit_from
ArrayElement_emit_from(token) ==
    IF token.k # "Element" THEN EErr("Unrepresentable")
    ELSE IF /\ Len(token.text) = 1
            /\ token.text[1].k \in {"Unquoted", "DoubleQuote"}
            /\ Len(token.text[1].words) = 1
            /\ token.text[1].words[1].k = "BracedVariable"
            /\ token.text[1].words[1].mod = <<LmPlain("ArrayElements")>>
         THEN EOk(AeInclusion(token.text[1].words[1].name))
         ELSE The({IF tx.st # "ok" THEN tx ELSE EOk(AeText(tx.v)) :
                   tx \in {Text_emit_from(token.text)}})

\* The loop of VariableValue::emit_from over the tokens of an array from the
\* j-th, in state `state` with the elements `result` emitted so far.
RECURSIVE ArrayEmitLoop(_, _, _, _)
ArrayEmitLoop(tokens, j, state, result) ==
    IF j > Len(tokens) THEN EOk(AvArray(result))
    ELSE CASE tokens[j].k = "Spacy" ->
                ArrayEmitLoop(tokens, j + 1,
                              IF state \in {"NeedDelimiter", "Ready"} THEN "Ready" ELSE state,
                              result)
           [] tokens[j].k = "Newline" -> ArrayEmitLoop(tokens, j + 1, "Ready", result)
           [] tokens[j].k = "Comment" -> ArrayEmitLoop(tokens, j + 1, "NeedNewline", result)
           [] tokens[j].k = "Element" ->
                IF state = "Ready"
                THEN The({IF el.st # "ok" THEN el
                          ELSE ArrayEmitLoop(tokens, j + 1, "NeedDelimiter",
                                             Append(result, el.v)) :
                          el \in {ArrayElement_emit_from(tokens[j])}})
                ELSE EErr("MissingArrayElementDelimiter")

\* An emit_from that wants a delimiter before the first element too.
VariableValue_emit_delimited(value) ==
    IF value.k = "String"
    THEN The({IF tx.st # "ok" THEN tx ELSE EOk(AvString(tx.v)) :
              tx \in {Text_emit_from(value.text)}})
    ELSE ArrayEmitLoop(value.tokens, 1, "NeedDelimiter", <<>>)

VariableValue_emit_from(value) ==
    IF value.k = "String"
    THEN The({IF tx.st # "ok" THEN tx ELSE EOk(AvString(tx.v)) :
              tx \in {Text_emit_from(value.text)}})
    ELSE ArrayEmitLoop(value.tokens, 1, "Ready", <<>>)

\* An emit_from that takes `+=` for `=`.
emit_from_as_assignment(def) ==
    The({IF value.st # "ok" THEN value ELSE EOk(ADefinition(def.name, value.v)) :
         value \in {VariableValue_emit_from(def.value)}})

\* VariableDefinition::emit_from: `+=` is desugared.
VariableDefinition_emit_from(def) ==
    The({IF value.st # "ok" THEN value
         ELSE IF def.op = "="
         THEN EOk(ADefinition(def.name, value.v))
         ELSE IF value.v.k = "String"
         THEN EOk(ADefinition(def.name,
                              AvString(<<WVariable(def.name, <<>>)>> \o value.v.text)))
         ELSE EOk(ADefinition(def.name,
                              AvArray(<<AeInclusion(def.name)>> \o value.v.elements))) :
         value \in {VariableValue_emit_from(def.value)}})

\* The loop of ApmlAst::emit_from.
RECURSIVE RootEmitLoop(_, _, _, _)
RootEmitLoop(tokens, j, state, result) ==
    IF j > Len(tokens) THEN EOk(result)
    ELSE CASE tokens[j].k = "Spacy" -> RootEmitLoop(tokens, j + 1, state, result)
           [] tokens[j].k = "Newline" -> RootEmitLoop(tokens, j + 1, "Ready", result)
           [] tokens[j].k = "Comment" -> RootEmitLoop(tokens, j + 1, "NeedNewline", result)
           [] tokens[j].k = "Variable" ->
                IF state = "Ready"
                THEN The({IF def.st # "ok" THEN def
                          ELSE RootEmitLoop(tokens, j + 1, "NeedDelimiter",
                                            Append(result, def.v)) :
                          def \in {VariableDefinition_emit_from(tokens[j])}})
                ELSE EErr("MissingRootElementDelimiter")

\* An emit_from that takes a comment for blank space.
ApmlAst_emit_uncommented(tokens) ==
    RootEmitLoop([j \in 1..Len(tokens) |->
                     IF tokens[j].k = "Comment" THEN TSpacy(" ") ELSE tokens[j]],
                 1, "Ready", <<>>)

ApmlAst_emit_from(tokens) == RootEmitLoop(tokens, 1, "Ready", <<>>)

(***************************************************************************)
(* lower: AST to LST (apml/ast.rs).                                        *)
(***************************************************************************)
\* isize::to_string
IntToString(n) == IF n < 0 THEN <<"-">> \o ToDecimal(-n) ELSE ToDecimal(n)

should_escape(ch) == ch \in {"$", "\"", "\\"}

\* The loop of LiteralPart::escape over the rest of the text.
RECURSIVE EscapeLoop(_, _, _)
EscapeLoop(text, buffer, result) ==
    IF text = <<>>
    THEN IF buffer # <<>> THEN Append(result, LString(buffer)) ELSE result
    ELSE IF should_escape(Head(text))
         THEN EscapeLoop(Tail(text), <<>>,
                         (IF buffer # <<>> THEN Append(result, LString(buffer)) ELSE result)
                         \o <<LEscaped(Head(text))>>)
         ELSE EscapeLoop(Tail(text), Append(buffer, Head(text)), result)

LiteralPart_unescaped(text) == <<LString(text)>>

LiteralPart_escape(text) == EscapeLoop(text, <<>>, <<>>)

RECURSIVE Text_lower(_), Word_lower(_), ExpansionModifier_lower(_)

Text_lower(text) == <<UDoubleQuote([j \in 1..Len(text) |-> Word_lower(text[j])])>>

Word_lower(word) ==
    CASE word.k = "Literal" -> LwLiteral(LiteralPart_escape(word.s))
      [] word.k = "Variable" ->
           LwBraced(word.name,
                    IF word.mod = <<>> THEN <<>>
                    ELSE <<ExpansionModifier_lower(word.mod[1])>>)
      [] word.k = "Subcommand" -> LwLiteral(<<LString(word.s)>>)

ExpansionModifier_lower(m) ==
    CASE m.k = "Substring" ->
           LmSubstring(ToDecimal(m.offset),
                       IF m.length = <<>> THEN <<>> ELSE <<IntToString(m.length[1])>>)
      [] m.k \in StripKinds \cup CaseKinds -> LmPattern(m.k, m.pattern)
      [] m.k \in ReplaceKinds -> LmReplace(m.k, m.pattern, <<Text_lower(m.text)>>)
      [] m.k \in TextKinds -> LmText(m.k, Text_lower(m.text))
      [] m.k = "Length" -> LmPlain("Length")

ArrayElement_lower(el) ==
    IF el.k = "ArrayInclusion"
    THEN AElement(<<UDoubleQuote(<<LwBraced(el.name, <<LmPlain("ArrayElements")>>)>>)>>)
    ELSE AElement(Text_lower(el.text))

\* The elements, a Spacy(' ') pushed after each, and the last token popped.
RECURSIVE ArrayLowerLoop(_)
ArrayLowerLoop(elements) ==
    IF elements = <<>> THEN <<>>
    ELSE <<ArrayElement_lower(Head(elements)), ASpacy(" ")>> \o ArrayLowerLoop(Tail(elements))

pop(s) == IF s = <<>> THEN <<>> ELSE SubSeq(s, 1, Len(s) - 1)

VariableValue_lower(value) ==
    IF value.k = "String" THEN LvString(Text_lower(value.text))
    ELSE LvArray(pop(ArrayLowerLoop(value.elements)))

VariableDefinition_lower(def) == TVariable(def.name, "=", VariableValue_lower(def.value))

\* ApmlAst::lower: the definitions with a newline between them.
RECURSIVE ApmlAst_lower(_)
ApmlAst_lower(defs) ==
    IF defs = <<>> THEN <<>>
    ELSE IF Len(defs) = 1 THEN <<VariableDefinition_lower(defs[1])>>
    ELSE <<VariableDefinition_lower(Head(defs)), TNewline>> \o ApmlAst_lower(Tail(defs))

(***************************************************************************)
(* Evaluating definitions (apml/eval.rs).                                  *)
(***************************************************************************)
\* An insert that keeps the value of a name already bound.
insert_if_absent(apml, name, v) ==
    [n \in DOMAIN apml \cup {name} |-> IF n \in DOMAIN apml THEN apml[n] ELSE v]

\* HashMap::insert
insert(apml, name, v) ==
    [n \in DOMAIN apml \cup {name} |-> IF n = name THEN v ELSE apml[n]]

\* eval_array_element: the values after the element, or the failure.
eval_array_element(apml, element, values) ==
    IF element.k = "ArrayInclusion"
    THEN Ok(values \o into_array(get_or_default(apml, element.name)))
    ELSE The({IF tx.st # "ok" THEN tx ELSE Ok(Append(values, tx.v)) :
              tx \in {eval_text(apml, element.text)}})

\* The loop of eval_variable_value over the elements of an array.
RECURSIVE ArrayEvalLoop(_, _, _)
ArrayEvalLoop(apml, elements, values) ==
    IF elements = <<>> THEN Ok(ValArray(values))
    ELSE The({IF r.st # "ok" THEN r ELSE ArrayEvalLoop(apml, Tail(elements), r.v) :
              r \in {eval_array_element(apml, Head(elements), values)}})

eval_variable_value(apml, value) ==
    IF value.k = "String"
    THEN The({IF tx.st # "ok" THEN tx ELSE Ok(ValString(tx.v)) :
              tx \in {eval_text(apml, value.text)}})
    ELSE ArrayEvalLoop(apml, value.elements, <<>>)

\* eval_variable_def: [st, v, apml], the context after the definition.
eval_variable_def(apml, def) ==
    The({IF value.st # "ok" THEN [st |-> value.st, v |-> value.v, apml |-> apml]
         ELSE [st |-> "ok", v |-> <<>>, apml |-> insert(apml, def.name, value.v)] :
         value \in {eval_variable_value(apml, def.value)}})

\* eval_ast: the definitions in order, up to the first failure.
RECURSIVE eval_ast(_, _)
eval_ast(apml, tree) ==
    IF tree = <<>> THEN [st |-> "ok", v |-> <<>>, apml |-> apml]
    ELSE The({IF r.st # "ok" THEN r ELSE eval_ast(r.apml, Tail(tree)) :
              r \in {eval_variable_def(apml, Head(tree))}})

(***************************************************************************)
(* The editor (apml/editor.rs).  Token indexes are those of the Vec, from  *)
(* 0; a Vec operation returns [st, tokens]: st is "ok" or "panic", and a   *)
(* panic leaves the tokens as they were.                                   *)
(***************************************************************************)
Builds == {"debug", "release"}

\* tokens.get(i): <<>> is None
get(tokens, i) == IF i >= 0 /\ i < Len(tokens) THEN <<tokens[i + 1]>> ELSE <<>>

IsKind(opt, k) == opt # <<>> /\ opt[1].k = k

\* tokens.get(a - b) with the usize subtraction of the build, as [st, v]: an
\* overflow panics in a debug build and wraps in a release build to an index
\* past the end of every Vec, where get gives None.
get_sub(tokens, a, b, build) ==
    IF a >= b THEN [st |-> "ok", v |-> get(tokens, a - b)]
    ELSE IF build = "debug" THEN [st |-> "panic", v |-> <<>>]
    ELSE [st |-> "ok", v |-> <<>>]

\* .skip(from).take_while(|token| !matches!(token, Newline)).count()
RECURSIVE count_to_newline(_, _)
count_to_newline(tokens, from) ==
    IF IsKind(get(tokens, from), "Newline") \/ get(tokens, from) = <<>> THEN 0
    ELSE 1 + count_to_newline(tokens, from + 1)

\* find_var: the index of the first definition of the name, <<>> for None
find_var(tokens, name) ==
    IF \E i \in 0..(Len(tokens) - 1) :
          tokens[i + 1].k = "Variable" /\ tokens[i + 1].name = name
    THEN <<CHOOSE i \in 0..(Len(tokens) - 1) :
              /\ tokens[i + 1].k = "Variable" /\ tokens[i + 1].name = name
              /\ \A h \in 0..(i - 1) :
                    ~(tokens[h + 1].k = "Variable" /\ tokens[h + 1].name = name)>>
    ELSE <<>>

\* An ensure_end_newline that leaves the tokens as they are.
keep_end(tokens) == tokens

\* ensure_end_newline
ensure_end_newline(tokens) ==
    IF tokens # <<>> /\ tokens[Len(tokens)].k # "Newline"
    THEN Append(tokens, TNewline) ELSE tokens

\* Vec::insert(index, element), for index <= len
vec_insert(tokens, index, element) ==
    SubSeq(tokens, 1, index) \o <<element>> \o SubSeq(tokens, index + 1, Len(tokens))

\* The end of append_var_ast and of replace_var_lst: the token as the last line.
push_line(tokens, token) == ensure_end_newline(tokens) \o <<token, TNewline>>

\* An append_var_ast that takes no notice of `after`.
append_var_last(tokens, name, value, after) ==
    push_line(tokens, TVariable(name, "=", VariableValue_lower(value)))

\* append_var_ast(name, value, after); after is <<>> or <<name>>
append_var_ast(tokens, name, value, after) ==
    The({The({IF found # <<>> /\ found[1] + count_to_newline(tokens, found[1]) + 1 <= Len(tokens)
              THEN The({vec_insert(vec_insert(tokens, index, TNewline), index, token) :
                        index \in {found[1] + count_to_newline(tokens, found[1]) + 1}})
              ELSE push_line(tokens, token) :
              found \in {IF after = <<>> THEN <<>> ELSE find_var(tokens, after[1])}}) :
         token \in {TVariable(name, "=", VariableValue_lower(value))}})

\* A replace_var_lst that appends whether the name is defined or not.
replace_var_appending(tokens, name, value) ==
    push_line(tokens, TVariable(name, "=", value))

\* replace_var_lst(name, value)
replace_var_lst(tokens, name, value) ==
    The({The({IF found # <<>>
              THEN [tokens EXCEPT ![found[1] + 1] = token]
              ELSE push_line(tokens, token) :
              found \in {find_var(tokens, name)}}) :
         token \in {TVariable(name, "=", value)}})

\* replace_var_ast(name, value)
replace_var_ast(tokens, name, value) ==
    replace_var_lst(tokens, name, VariableValue_lower(value))

\* remove_var: whether the line after that of the token at index holds a
\* variable definition.
next_line_has_variable(tokens, index) ==
    The({\E j \in from..(from + count_to_newline(tokens, from) - 1) :
             IsKind(get(tokens, j), "Variable") :
         from \in {index + count_to_newline(tokens, index) + 1}})

\* remove_var: the loop that moves start over the removable comments, as
\* [st, v]: v is the last start.
RECURSIVE scan_comments(_, _, _)
scan_comments(tokens, start, build) ==
    The({IF t1.st = "panic" THEN [st |-> "panic", v |-> start]
         ELSE IF ~IsKind(t1.v, "Newline") THEN [st |-> "ok", v |-> start]
         ELSE The({IF t2.st = "panic" THEN [st |-> "panic", v |-> start]
                   ELSE IF ~IsKind(t2.v, "Comment") THEN [st |-> "ok", v |-> start]
                   ELSE The({IF t3.st = "panic" THEN [st |-> "panic", v |-> start]
                             ELSE IF ~IsKind(t3.v, "Newline") THEN [st |-> "ok", v |-> start]
                             ELSE scan_comments(tokens, start - 2, build) :
                             t3 \in {get_sub(tokens, start, 3, build)}}) :
                   t2 \in {get_sub(tokens, start, 2, build)}}) :
         t1 \in {get_sub(tokens, start, 1, build)}})

\* Vec::drain(start..=end): the range is checked before anything is removed.
drain(tokens, start, end) ==
    IF end + 1 > Len(tokens) \/ start > end + 1
    THEN [st |-> "panic", tokens |-> tokens]
    ELSE [st |-> "ok",
          tokens |-> SubSeq(tokens, 1, start) \o SubSeq(tokens, end + 2, Len(tokens))]

\* remove_var(index)
remove_var(tokens, index, build) ==
    The({The({IF t.st = "panic" THEN [st |-> "panic", tokens |-> tokens]
              ELSE IF IsKind(t.v, "Comment") /\ ~next_line_has_variable(tokens, index)
              THEN The({IF start.st = "panic" THEN [st |-> "panic", tokens |-> tokens]
                        ELSE drain(tokens, start.v, index + after) :
                        start \in {scan_comments(tokens, index, build)}})
              ELSE drain(tokens, index, index + after) :
              t \in {get_sub(tokens, index, 2, build)}}) :
         after \in {count_to_newline(tokens, index)}})

(***************************************************************************)
(* The linters (libpfu-style, libpfu-fixers).  A linter works on the       *)
(* accessors of a session; an accessor here is [lst, dirty], its context   *)
(* being evaluated from lst whenever it is asked for.  A linter gives back *)
(* [st, lst, dirty]: how it ended ("ok", "err" for an Err it returned,     *)
(* "panic"), the tokens it left and whether it marked the accessor dirty.  *)
(***************************************************************************)
Linted(st, ts, marked) == [st |-> st, lst |-> ts, dirty |-> marked]

\* Token::is_empty
is_empty(token) == token.k \in {"Newline", "Spacy"}

\* Vec::drain(a..b), Vec::truncate(n), for ranges within the Vec
vec_drain(ts, a, b) == SubSeq(ts, 1, a) \o SubSeq(ts, b + 1, Len(ts))

vec_truncate(ts, n) == IF n < Len(ts) THEN SubSeq(ts, 1, n) ELSE ts

\* ExtraSpacesLinter: the batching closure.  A batch takes the tokens from
\* index i up to a newline, which take_while consumes with them; the
\* iter.next() that follows consumes one token more; the first empty batch
\* ends the batches.  A line is [first, len], the index of its first token
\* and the number of its tokens.
RECURSIVE space_batches(_, _, _)
space_batches(ts, i, lines) ==
    The({IF n = 0 THEN lines
         ELSE space_batches(ts, i + n + 2, Append(lines, [first |-> i, len |-> n])) :
         n \in {count_to_newline(ts, i)}})

\* line.get(k) of a batch
line_get(ts, line, k) == IF k >= 0 /\ k < line.len THEN get(ts, line.first + k) ELSE <<>>

\* while let Some((_, Spacy(_))) = line.get(before) { before += 1 }
RECURSIVE spaces_before(_, _, _)
spaces_before(ts, line, n) ==
    IF IsKind(line_get(ts, line, n), "Spacy") THEN spaces_before(ts, line, n + 1) ELSE n

\* while let Some((_, Spacy(_))) = line.get(line.len() - after) { after += 1 }
RECURSIVE spaces_after(_, _, _)
spaces_after(ts, line, n) ==
    IF IsKind(line_get(ts, line, line.len - n), "Spacy")
    THEN spaces_after(ts, line, n + 1) ELSE n

\* The lines that begin or end with a space, as the pairs of ranges to drain:
\* [a1, b1, a2, b2] for (a1..b1, a2..b2).
space_ranges(ts) ==
    The({[j \in 1..Len(found) |->
            The({[a1 |-> found[j].first, b1 |-> found[j].first + spaces_before(ts, found[j], 0),
                  a2 |-> last_idx - spaces_after(ts, found[j], 0), b2 |-> last_idx] :
                 last_idx \in {found[j].first + found[j].len - 1}})] :
         found \in {SelectSeq(space_batches(ts, 0, <<>>),
                              LAMBDA line : \/ IsKind(line_get(ts, line, 0), "Spacy")
                                            \/ IsKind(line_get(ts, line, line.len - 1), "Spacy"))}})

\* for (range1, range2) in ranges { drain(range2); drain(range1) }, the
\* ranges taken from the last to the first
RECURSIVE drain_spaces(_, _, _)
drain_spaces(ts, ranges, j) ==
    IF j = 0 THEN ts
    ELSE drain_spaces(vec_drain(vec_drain(ts, ranges[j].a2, ranges[j].b2),
                                ranges[j].a1, ranges[j].b1),
                      ranges, j - 1)

\* ExtraSpacesLinter::apply on one accessor
ExtraSpacesLinter_apply(ts, dry) ==
    The({IF ~dry /\ ranges # <<>>
         THEN Linted("ok", drain_spaces(ts, ranges, Len(ranges)), TRUE)
         ELSE Linted("ok", ts, FALSE) :
         ranges \in {space_ranges(ts)}})

\* EmptyLineLinter, first block: .rev().take_while(not Newline).any(is_empty)
RECURSIVE missing_new_line(_, _)
missing_new_line(ts, n) ==
    IF n = 0 \/ ts[n].k = "Newline" THEN FALSE
    ELSE is_empty(ts[n]) \/ missing_new_line(ts, n - 1)

\* EmptyLineLinter, second block: the indexes of the newlines among the
\* tokens .rev().take_while(is_empty), the last of them first
RECURSIVE trailing_newlines(_, _)
trailing_newlines(ts, n) ==
    IF n = 0 \/ ~is_empty(ts[n]) THEN <<>>
    ELSE (IF ts[n].k = "Newline" THEN <<n - 1>> ELSE <<>>) \o trailing_newlines(ts, n - 1)

\* EmptyLineLinter, third block: the loop over the tokens; state is <<>> for
\* NotEmpty and <<from, lines>> for Empty, a range is <<from, idx>>.
RECURSIVE empty_ranges(_, _, _, _)
empty_ranges(ts, idx, state, ranges) ==
    IF idx >= Len(ts) THEN ranges
    ELSE IF is_empty(ts[idx + 1])
    THEN The({empty_ranges(ts, idx + 1,
                           IF ts[idx + 1].k = "Newline" THEN <<entered[1], entered[2] + 1>>
                           ELSE entered,
                           ranges) :
              entered \in {IF state = <<>> THEN <<idx, 0>> ELSE state}})
    ELSE IF state # <<>> /\ state[2] > 2
    THEN empty_ranges(ts, idx + 1, <<>>, Append(ranges, <<state[1], idx>>))
    ELSE empty_ranges(ts, idx + 1, <<>>, ranges)

\* for range in ranges { drain(range); insert(start, Newline) twice }, the
\* ranges taken from the last to the first
RECURSIVE squeeze_ranges(_, _, _)
squeeze_ranges(ts, ranges, j) ==
    IF j = 0 THEN ts
    ELSE squeeze_ranges(
             vec_insert(vec_insert(vec_drain(ts, ranges[j][1], ranges[j][2]),
                                   ranges[j][1], TNewline),
                        ranges[j][1], TNewline),
             ranges, j - 1)

\* The first block on an accessor [lst, dirty]
push_missing_line(apml, dry) ==
    IF missing_new_line(apml.lst, Len(apml.lst)) /\ ~dry
    THEN [lst |-> Append(apml.lst, TNewline), dirty |-> TRUE]
    ELSE apml

\* The second block
truncate_trailing_lines(apml, dry) ==
    The({IF Len(trailing) > 1 /\ ~dry
         THEN [lst |-> vec_truncate(apml.lst, (trailing[1] + 1) - 1), dirty |-> TRUE]
         ELSE apml :
         trailing \in {trailing_newlines(apml.lst, Len(apml.lst))}})

\* The third block
squeeze_empty_lines(apml, dry) ==
    The({IF ~dry /\ ranges # <<>>
         THEN [lst |-> squeeze_ranges(apml.lst, ranges, Len(ranges)), dirty |-> TRUE]
         ELSE apml :
         ranges \in {empty_ranges(apml.lst, 0, <<>>, <<>>)}})

\* An EmptyLineLinter::apply that edits whatever the dry switch says.
EmptyLineLinter_apply_wet(ts, dry) ==
    The({Linted("ok", r.lst, r.dirty) :
         r \in {squeeze_empty_lines(
                    truncate_trailing_lines(
                        push_missing_line([lst |-> ts, dirty |-> FALSE], FALSE), FALSE),
                    FALSE)}})

\* EmptyLineLinter::apply on one accessor
EmptyLineLinter_apply(ts, dry) ==
    The({Linted("ok", r.lst, r.dirty) :
         r \in {squeeze_empty_lines(
                    truncate_trailing_lines(
                        push_missing_line([lst |-> ts, dirty |-> FALSE], dry), dry),
                    dry)}})

(***************************************************************************)
(* What a pattern matches, as GlobPart documents its variants              *)
(* (apml/pattern.rs): GlobEnds(p, s, i) is the set of positions e such     *)
(* that p matches s[i, e).                                                 *)
(***************************************************************************)
RECURSIVE GlobEnds(_, _, _), PartEnds(_, _, _), ListEnds(_, _, _), RepeatEnds(_, _, _)

GlobEnds(p, s, i) ==
    IF p = <<>> THEN {i}
    ELSE UNION {GlobEnds(Tail(p), s, e) : e \in PartEnds(Head(p), s, i)}

ListEnds(l, s, i) == UNION {GlobEnds(l[j], s, i) : j \in 1..Len(l)}

\* The positions reached from those of `from` by more occurrences of the list.
RepeatEnds(l, s, from) ==
    LET more == from \cup UNION {ListEnds(l, s, e) : e \in from}
    IN IF more = from THEN from ELSE RepeatEnds(l, s, more)

PartEnds(part, s, i) ==
    LET n == Len(part.s)
        fixed == IF i + n - 1 <= Len(s) /\ SubSeq(s, i, i + n - 1) = part.s
                 THEN {i + n} ELSE {}
    IN CASE part.k = "String" -> fixed
         [] part.k = "Escaped" -> fixed
         [] part.k = "AnyString" -> i..(Len(s) + 1)
         [] part.k = "AnyChar" -> IF i <= Len(s) THEN {i + 1} ELSE {}
         [] part.k = "Range" ->
              IF i <= Len(s) /\ (\E j \in 1..n : part.s[j] = s[i]) THEN {i + 1} ELSE {}
         [] part.k = "ZeroOrOneOf" -> {i} \cup ListEnds(part.l, s, i)
         [] part.k = "ZeroOrMoreOf" -> RepeatEnds(part.l, s, {i})
         [] part.k = "OneOrMoreOf" -> RepeatEnds(part.l, s, ListEnds(part.l, s, i))
         [] part.k = "OneOf" -> ListEnds(part.l, s, i)
         [] part.k = "Not" -> (i..(Len(s) + 1)) \ ListEnds(part.l, s, i)

\* The lengths of the prefixes of s the pattern matches.
PrefixLens(p, s) == {e - 1 : e \in GlobEnds(p, s, 1)}

\* The lengths of the suffixes of s the pattern matches.
SuffixLens(p, s) == {Len(s) + 1 - i : i \in {j \in 1..(Len(s) + 1) : Len(s) + 1 \in GlobEnds(p, s, j)}}

SetMin(S) == CHOOSE x \in S : \A y \in S : x <= y

SetMax(S) == CHOOSE x \in S : \A y \in S : x >= y

(***************************************************************************)
(* Applying one expansion modifier to one value.                           *)
(***************************************************************************)
VARIABLES value, modifier, result

modVars == <<value, modifier, result>>

\* ApmlContext::eval_lst in steps: the LST, the AST emitted from it, the index
\* of the definition eval_ast is at, the context, and where the call is.
VARIABLES lst, tree, pc, variables, phase

evalVars == <<lst, tree, pc, variables, phase>>

\* An editing session: the tokens of the wrapped LST, the build the program
\* was compiled as, the last call with the tokens before it and how it
\* ended, the number of calls, and whether replace_var_lst has been given a
\* value that does not emit.
VARIABLES tokens, build, call, before, outcome, ncalls, unemittable

editVars == <<tokens, build, call, before, outcome, ncalls, unemittable>>

\* Parsing a source text and writing the LST back: the text, the result of
\* ApmlLst::parse and, once written, <<the text of the LST>>.
VARIABLES source, parsed, serialized

parseVars == <<source, parsed, serialized>>

\* Coercing a list to a scalar and back: the list, <<its scalar>> once it is
\* joined, and <<the list of the scalar>> once that is split.
VARIABLES items, joined, resplit

coerceVars == <<items, joined, resplit>>

\* Writing the canonical form of a source text: the text, <<the text of its
\* lowered AST>> once written, and <<the evaluation of the text, that of the
\* canonical form>> once both are evaluated.
VARIABLES origin, lowered, outcomes

canonVars == <<origin, lowered, outcomes>>

\* Emitting a token sequence: the sequence with its level, "root" or "array",
\* and <<what emit_from returned>> once it has run.
VARIABLES subject, emitted

emitVars == <<subject, emitted>>

\* A caller of the evaluator: the AST it evaluates, the context it holds and
\* lends to eval::eval_ast, and <<what the call returned>>.
VARIABLES program, held, received

failVars == <<program, held, received>>

\* An ApmlFileAccess (libpfu/apml.rs): inner.lst and inner.ast are <<>> for
\* None, as is self.ctx; got is what the last call returned, prior the
\* inner.lst a with_text took when it was the last modification, and disk the
\* text of the file.
VARIABLES inner_lst, inner_ast, self_ctx, dirty, got, prior, disk

accessVars == <<inner_lst, inner_ast, self_ctx, dirty, got, prior, disk>>

\* Lowering an AST node and emitting the LST made: the node with its kind,
\* and <<what emit_from returned>> once it has run.
VARIABLES node, back

lowerVars == <<node, back>>

\* A session of pakfixer on one package (pakfixer/main.rs): the dry switch,
\* whether the build checks overflows, the accessors of the session as
\* [lst, dirty] records (the spec file, then the defines file), the selected
\* linters still to apply, the linter applied last, and how far main has come.
VARIABLES dry, profile, files, todo, applied, status

lintVars == <<dry, profile, files, todo, applied, status>>

laterVars == <<coerceVars, canonVars, emitVars, failVars, accessVars, lowerVars, lintVars>>

vars == <<modVars, evalVars, editVars, parseVars, laterVars>>

notMod == <<evalVars, editVars, parseVars, laterVars>>

notEval == <<modVars, editVars, parseVars, laterVars>>

notEdit == <<modVars, evalVars, parseVars, laterVars>>

notParse == <<modVars, evalVars, editVars, laterVars>>

firstVars == <<modVars, evalVars, editVars, parseVars>>

notCoerce == <<firstVars, canonVars, emitVars, failVars, accessVars, lowerVars, lintVars>>

notCanon == <<firstVars, coerceVars, emitVars, failVars, accessVars, lowerVars, lintVars>>

notEmit == <<firstVars, coerceVars, canonVars, failVars, accessVars, lowerVars, lintVars>>

notFail == <<firstVars, coerceVars, canonVars, emitVars, accessVars, lowerVars, lintVars>>

notAccess == <<firstVars, coerceVars, canonVars, emitVars, failVars, lowerVars, lintVars>>

notLower == <<firstVars, coerceVars, canonVars, emitVars, failVars, accessVars, lintVars>>

notLint == <<firstVars, coerceVars, canonVars, emitVars, failVars, accessVars, lowerVars>>

NoResult == [st |-> "none", v |-> <<>>]

\* ApmlContext::default()
EmptyContext == [n \in {} |-> ValDefault]

ModIdle == value = ValDefault /\ modifier = MLength /\ result = NoResult

EvalIdle ==
    /\ lst = <<>>
    /\ tree = <<>>
    /\ pc = 1
    /\ variables = EmptyContext
    /\ phase = "idle"

\* A call of the editor: after is <<>> or <<name>>, value an AST value and
\* lvalue an LST value.
Call(k, name, index, after, v, lv) ==
    [k |-> k, name |-> name, index |-> index, after |-> after, value |-> v, lvalue |-> lv]

NoCall == Call("none", <<>>, 0, <<>>, AvString(<<>>), LvNone)

EditIdle ==
    /\ tokens = <<>>
    /\ build = "release"
    /\ call = NoCall
    /\ before = <<>>
    /\ outcome = "none"
    /\ ncalls = 0
    /\ unemittable = FALSE

NoParse == [st |-> "none", v |-> <<>>, pos |-> 0]

ParseIdle == source = <<>> /\ parsed = NoParse /\ serialized = <<>>

CoerceIdle == items = <<>> /\ joined = <<>> /\ resplit = <<>>

CanonIdle == origin = <<>> /\ lowered = <<>> /\ outcomes = <<>>

NoSubject == [level |-> "none", tokens |-> <<>>]

EmitIdle == subject = NoSubject /\ emitted = <<>>

FailIdle == program = <<>> /\ held = EmptyContext /\ received = <<>>

NoRead == [k |-> "none", st |-> "none", v |-> <<>>]

AccessIdle ==
    /\ inner_lst = <<>>
    /\ inner_ast = <<>>
    /\ self_ctx = <<>>
    /\ dirty = FALSE
    /\ got = NoRead
    /\ prior = <<>>
    /\ disk = <<>>

NoNode == [kind |-> "none", a |-> <<>>]

LowerIdle == node = NoNode /\ back = <<>>

LintIdle ==
    /\ dry = FALSE
    /\ profile = "none"
    /\ files = <<>>
    /\ todo = {}
    /\ applied = "none"
    /\ status = "none"

LaterIdle == CoerceIdle /\ CanonIdle /\ EmitIdle /\ FailIdle /\ AccessIdle /\ LowerIdle /\ LintIdle

FirstIdle == ModIdle /\ EvalIdle /\ EditIdle /\ ParseIdle

\* Every group but g is idle.
IdleBut(g) ==
    /\ FirstIdle
    /\ (g = "coerce" \/ CoerceIdle)
    /\ (g = "canon" \/ CanonIdle)
    /\ (g = "emit" \/ EmitIdle)
    /\ (g = "fail" \/ FailIdle)
    /\ (g = "access" \/ AccessIdle)
    /\ (g = "lower" \/ LowerIdle)
    /\ (g = "lint" \/ LintIdle)

\* ApmlContext::eval_ast (apml/mod.rs): a context of its own is evaluated into
\* and returned as <<context>>; on an error the context is dropped with the
\* call and the error alone returned.
ApmlContext_eval_ast(defs) ==
    The({IF r.st = "ok" THEN [st |-> "ok", v |-> <<>>, ctx |-> <<r.apml>>]
         ELSE [st |-> r.st, v |-> r.v, ctx |-> <<>>] :
         r \in {eval_ast(EmptyContext, defs)}})

\* ApmlContext::eval_lst
ApmlContext_eval_lst(ts) ==
    The({IF r.st # "ok" THEN [st |-> r.e, v |-> <<>>, ctx |-> <<>>]
         ELSE ApmlContext_eval_ast(r.v) :
         r \in {ApmlAst_emit_from(ts)}})

\* ApmlContext::eval_source
ApmlContext_eval_source(src) ==
    The({IF r.st # "ok" THEN [st |-> r.st, v |-> <<>>, ctx |-> <<>>]
         ELSE ApmlContext_eval_lst(r.v) :
         r \in {ApmlLst_parse(src)}})

\* The longest value text, substring offset and substring length drawn.
MaxValueLen == 3

MaxLength == 2

Alphabet == {"a", "b", "\n"}

StringValues == {ValString(s) : s \in SeqsUpTo(Alphabet, MaxValueLen)}

ArrayValues ==
    {ValArray(<<>>), ValArray(<< <<"a">> >>), ValArray(<< <<"a">>, <<"b">> >>)}

Values == StringValues \cup ArrayValues

AB == << <<GString(<<"a">>)>>, <<GString(<<"b">>)>> >>

Patterns ==
    { <<GString(<<"a">>)>>, <<GString(<<"b">>)>>, <<GEscaped("a")>>,
      <<GAnyChar>>, <<GAnyString>>, <<GRange(<<"a">>)>>,
      <<GString(<<"a">>), GAnyString>>, <<GString(<<"a">>), GAnyChar>>,
      <<GAnyString, GString(<<"b">>)>>, <<GAnyChar, GString(<<"b">>)>>,
      <<GList("OneOf", AB)>>, <<GList("ZeroOrOneOf", AB)>>,
      <<GList("ZeroOrMoreOf", AB)>>, <<GList("OneOrMoreOf", AB)>>,
      <<GList("Not", AB)>>, <<GList("OneOf", AB), GAnyString>> }

\* The name A is set and U is not.
ModContext == [n \in {<<"A">>} |-> ValString(<<"a">>)]

Texts ==
    { <<>>, <<WLiteral(<<"X">>)>>, <<WVariable(<<"A">>, <<>>)>>,
      <<WVariable(<<"U">>, <<MText("ErrorOnUnset", <<WLiteral(<<"X">>)>>)>>)>> }

Modifiers ==
    {MSubstring(o, l) : o \in 0..MaxValueLen,
                        l \in {<<>>} \cup {<<n>> : n \in (-MaxLength)..MaxLength}}
    \cup {MPattern(k, p) : k \in StripKinds \cup CaseKinds, p \in Patterns}
    \cup {MReplace(k, p, tx) : k \in ReplaceKinds, p \in Patterns, tx \in Texts}
    \cup {MText(k, tx) : k \in TextKinds, tx \in Texts}
    \cup {MLength}

InitMod ==
    /\ value \in Values
    /\ modifier \in Modifiers
    /\ result = NoResult
    /\ EvalIdle
    /\ EditIdle
    /\ ParseIdle
    /\ LaterIdle

\* apply_expansion_modifier(&ctx, &modifier, value)
ApplyModifier ==
    /\ result = NoResult
    /\ result' = apply_expansion_modifier(ModContext, modifier, value)
    /\ UNCHANGED <<value, modifier, notMod>>

NextMod == ApplyModifier

SpecMod == InitMod /\ [][NextMod]_vars

(***************************************************************************)
(* Properties of the expansion modifiers, under SpecMod.                   *)
(***************************************************************************)
Applied == result # NoResult

ValueText == into_string(value)

\* The modifier is, or its text expands through, error-on-unset.
UsesErrorOnUnset(m) ==
    \/ m.k = "ErrorOnUnset"
    \/ \E j \in 1..Len(m.text) :
          m.text[j].mod # <<>> /\ m.text[j].mod[1].k = "ErrorOnUnset"

\* C4: evaluation fails only through the error-on-unset modifier; every other
\* modifier, on any scalar or list value, returns a string and never fails or
\* aborts.
C4_OnlyErrorOnUnsetFails ==
    Applied =>
        \/ result.st = "ok"
        \/ result.st = "unset" /\ UsesErrorOnUnset(modifier)

\* A modifier without error-on-unset has been applied.
C4_Applied == Applied /\ ~UsesErrorOnUnset(modifier)

\* v[o, len), v[o, o+L) cut off at len, or v[o, len-|L|).
SubstringExpected(v, o, length) ==
    IF length = <<>> THEN Slice(v, o, Len(v))
    ELSE IF length[1] >= 0 THEN Slice(v, o, Min(o + length[1], Len(v)))
    ELSE Slice(v, o, Len(v) + length[1])

\* C5: with an offset o not greater than the length of the value, the substring
\* modifier yields v[o, len) without a length, v[o, o+L) cut off at len for a
\* length L that is not negative, and v[o, len-|L|) for a negative L.
C5_Substring ==
    (/\ Applied
     /\ modifier.k = "Substring"
     /\ modifier.offset <= Len(ValueText)
     /\ (modifier.length # <<>> /\ modifier.length[1] < 0
            => modifier.offset <= Len(ValueText) + modifier.length[1]))
    => result = Ok(SubstringExpected(ValueText, modifier.offset, modifier.length))

\* A substring with a length has been taken inside the value.
C5_Applied ==
    /\ Applied
    /\ modifier.k = "Substring"
    /\ modifier.length # <<>>
    /\ modifier.offset < Len(ValueText)
    /\ result.st = "ok"

\* The text a replace modifier puts in.
ReplacementText == eval_text(ModContext, modifier.text).v

\* C8: replace-prefix replaces only a match that starts at the first character
\* of the value and replace-suffix only one that ends at its last character;
\* at most one replacement is made, and a value without such a match is
\* returned unchanged.
C8_ReplaceAnchored ==
    (Applied /\ result.st = "ok") =>
        /\ modifier.k = "ReplacePrefix" =>
              IF PrefixLens(modifier.pattern, ValueText) = {}
              THEN result.v = ValueText
              ELSE \E n \in PrefixLens(modifier.pattern, ValueText) :
                      result.v = ReplacementText \o Slice(ValueText, n, Len(ValueText))
        /\ modifier.k = "ReplaceSuffix" =>
              IF SuffixLens(modifier.pattern, ValueText) = {}
              THEN result.v = ValueText
              ELSE \E n \in SuffixLens(modifier.pattern, ValueText) :
                      result.v = Slice(ValueText, 0, Len(ValueText) - n) \o ReplacementText

\* A prefix or suffix has been replaced.
C8_Applied ==
    /\ Applied
    /\ result.st = "ok"
    /\ modifier.k \in {"ReplacePrefix", "ReplaceSuffix"}
    /\ result.v # ValueText

\* The value without its shortest or longest prefix or suffix the pattern matches.
StripExpected(k, p, s) ==
    LET lens == IF k \in {"StripShortestPrefix", "StripLongestPrefix"}
                THEN PrefixLens(p, s) ELSE SuffixLens(p, s)
        n == IF k \in {"StripShortestPrefix", "StripShortestSuffix"}
             THEN SetMin(lens) ELSE SetMax(lens)
    IN IF lens = {} THEN s
       ELSE IF k \in {"StripShortestPrefix", "StripLongestPrefix"}
       THEN Slice(s, n, Len(s))
       ELSE Slice(s, 0, Len(s) - n)

\* C9: for every value and pattern the strip modifiers return the value without
\* its shortest (longest) suffix, or prefix, that the pattern matches, and the
\* value unchanged when there is none.
C9_Strip ==
    (Applied /\ modifier.k \in StripKinds) =>
        result = Ok(StripExpected(modifier.k, modifier.pattern, ValueText))

\* A strip modifier has removed something.
C9_Applied ==
    /\ Applied
    /\ modifier.k \in StripKinds
    /\ result.st = "ok"
    /\ result.v # ValueText

\* C10: in a compiled pattern `?` matches exactly one character, never none:
\* every match of the compiled pattern `?` is one character long.
C10_AnyCharMatchesOne ==
    (Applied /\ modifier.k \in PatternKinds /\ modifier.pattern = <<GAnyChar>>) =>
        LET rx == to_regex(modifier.pattern, <<>>, <<>>, TRUE)
        IN \A i \in 1..(Len(ValueText) + 1) :
              LET rs == MatchSeq(rx.re, 1, ValueText, i, <<>>)
              IN \A j \in 1..Len(rs) : rs[j].e = i + 1

\* The pattern `?` has been applied to a value.
C10_Applied ==
    Applied /\ modifier.k = "ReplaceAll" /\ modifier.pattern = <<GAnyChar>>
    /\ result.st = "ok"

\* C11: the length modifier yields, in decimal, the length of the value
\* coerced to a scalar, a list being joined with single spaces first; it is
\* never the number of elements of a list.
C11_LengthOfScalar ==
    (Applied /\ modifier.k = "Length") => result = Ok(ToDecimal(Len(ValueText)))

\* The length of a list of two elements has been taken.
C11_Applied ==
    Applied /\ modifier.k = "Length" /\ value.k = "Array" /\ Len(value.els) = 2

\* The current value is empty: the empty string or the list without elements.
CurIsEmpty == Len(IF value.k = "String" THEN value.s ELSE value.els) = 0

\* What evaluating the text of the modifier gives: a string or a failure.
EvaluatedText == eval_text(ModContext, modifier.text)

MaxDefs == 3

NameN == <<"N">>

NameM == <<"M">>

\* NAME="s" and NAME+="s"
StrDef(name, op, s) ==
    TVariable(name, op, LvString(<<UDoubleQuote(<<LwLiteral(<<LString(s)>>)>>)>>))

\* The tokens of the array (x y ...)
RECURSIVE ArrTokens(_)
ArrTokens(xs) ==
    IF xs = <<>> THEN <<>>
    ELSE <<AElement(<<UUnquoted(<<LwLiteral(<<LString(Head(xs))>>)>>)>>)>>
         \o (IF Len(xs) > 1 THEN <<ASpacy(" ")>> ELSE <<>>)
         \o ArrTokens(Tail(xs))

\* NAME=(x y ...) and NAME+=(x y ...)
ArrDef(name, op, xs) == TVariable(name, op, LvArray(ArrTokens(xs)))

LitStrings == {<<>>, <<"a">>, <<"b">>, <<"a", " ", "b">>}

LitArrays == {<<>>, << <<"a">> >>, << <<"b">> >>, << <<"a">>, <<"b">> >>}

DefPool ==
    {StrDef(NameN, op, s) : op \in {"=", "+="}, s \in LitStrings}
    \cup {ArrDef(NameN, op, xs) : op \in {"=", "+="}, xs \in LitArrays}
    \cup { \* M="${N}b"
           TVariable(NameM, "=",
               LvString(<<UDoubleQuote(<<LwBraced(NameN, <<>>),
                                         LwLiteral(<<LString(<<"b">>)>>)>>)>>)),
           \* M=("${N[@]}" b)
           TVariable(NameM, "=",
               LvArray(<<AElement(<<UDoubleQuote(
                             <<LwBraced(NameN, <<LmPlain("ArrayElements")>>)>>)>>),
                         ASpacy(" "),
                         AElement(<<UUnquoted(<<LwLiteral(<<LString(<<"b">>)>>)>>)>>)>>)),
           \* N="${M:?}"
           TVariable(NameN, "=",
               LvString(<<UDoubleQuote(
                   <<LwBraced(NameM, <<LmText("ErrorOnUnset", <<>>)>>)>>)>>)),
           \* M=(a"b"), two elements without a delimiter
           TVariable(NameM, "=",
               LvArray(<<AElement(<<UUnquoted(<<LwLiteral(<<LString(<<"a">>)>>)>>)>>),
                         AElement(<<UDoubleQuote(<<LwLiteral(<<LString(<<"b">>)>>)>>)>>)>>)) }

\* The definitions, one on each line.
RECURSIVE Lines(_)
Lines(defs) ==
    IF defs = <<>> THEN <<>>
    ELSE <<Head(defs)>> \o (IF Len(defs) > 1 THEN <<TNewline>> ELSE <<>>)
         \o Lines(Tail(defs))

Programs == {Lines(defs) : defs \in SeqsUpTo(DefPool, MaxDefs)}

InitEval ==
    /\ lst \in Programs
    /\ tree = <<>>
    /\ pc = 1
    /\ variables = EmptyContext
    /\ phase = "lst"
    /\ ModIdle
    /\ EditIdle
    /\ ParseIdle
    /\ LaterIdle

\* ApmlAst::emit_from(lst)?
EmitLst ==
    /\ phase = "lst"
    /\ \E r \in {ApmlAst_emit_from(lst)} :
          /\ tree' = (IF r.st = "ok" THEN r.v ELSE <<>>)
          /\ phase' = (IF r.st = "ok" THEN "eval" ELSE r.e)
    /\ UNCHANGED <<lst, pc, variables, notEval>>

\* One turn of the loop of eval_ast: eval_variable_def(apml, def)?
EvalDef ==
    /\ phase = "eval"
    /\ pc <= Len(tree)
    /\ \E r \in {eval_variable_def(variables, tree[pc])} :
          /\ variables' = r.apml
          /\ pc' = (IF r.st = "ok" THEN pc + 1 ELSE pc)
          /\ phase' = (IF r.st = "ok" THEN "eval" ELSE r.st)
    /\ UNCHANGED <<lst, tree, notEval>>

\* The end of the loop: Ok(apml)
EvalDone ==
    /\ phase = "eval"
    /\ pc > Len(tree)
    /\ phase' = "done"
    /\ UNCHANGED <<lst, tree, pc, variables, notEval>>

NextEval == EmitLst \/ EvalDef \/ EvalDone

SpecEval == InitEval /\ [][NextEval]_vars

(***************************************************************************)
(* Properties of the evaluation, under SpecEval.                           *)
(***************************************************************************)
\* The map the first n definitions declare: every name among them, bound to
\* the value of its last definition, computed from the map declared by the
\* definitions before that one.
RECURSIVE DeclMap(_, _)
DeclMap(defs, n) ==
    LET last(nm) == CHOOSE i \in 1..n :
                        defs[i].name = nm /\ \A j \in (i + 1)..n : defs[j].name # nm
    IN [nm \in {defs[i].name : i \in 1..n} |->
           eval_variable_value(DeclMap(defs, last(nm) - 1), defs[last(nm)].value).v]

EvalPhases == {"eval", "done", "unset", "regex", "panic"}

\* C2: evaluation is one pass in declaration order: the map after the first
\* definitions binds each name they define to the value of its last definition
\* among them, computed from the map of the definitions before it only; the
\* final map is that of all the definitions.
C2_LinearPass ==
    phase \in EvalPhases =>
        /\ pc \in 1..(Len(tree) + 1)
        /\ variables = DeclMap(tree, pc - 1)
        /\ phase = "done" => pc = Len(tree) + 1

\* A name defined twice has been given its second value, which differs from
\* the first.
C2_Redefined ==
    /\ phase = "done"
    /\ \E i, j \in 1..Len(tree) :
          /\ i < j
          /\ tree[i].name = tree[j].name
          /\ variables[tree[i].name] # DeclMap(tree, i)[tree[i].name]

\* ApmlContext::eval_lst(ts), for tokens ts that emit and evaluate.
EvalLst(ts) == eval_ast(EmptyContext, ApmlAst_emit_from(ts).v).apml

\* C3: NAME="x" followed by NAME+="y" binds NAME to the value NAME="xy" binds
\* it to, and NAME=(xs) followed by NAME+=(ys) to the list NAME=(xs ys) binds
\* it to.
C3_AppendIsPrefixed ==
    phase = "done" =>
        /\ \A x, y \in LitStrings :
              lst = Lines(<<StrDef(NameN, "=", x), StrDef(NameN, "+=", y)>>)
              => variables[NameN] = EvalLst(<<StrDef(NameN, "=", x \o y)>>)[NameN]
        /\ \A xs, ys \in LitArrays :
              lst = Lines(<<ArrDef(NameN, "=", xs), ArrDef(NameN, "+=", ys)>>)
              => variables[NameN] = EvalLst(<<ArrDef(NameN, "=", xs \o ys)>>)[NameN]

\* N=(a) followed by N+=(b) has been evaluated.
C3_Appended ==
    /\ phase = "done"
    /\ lst = Lines(<<ArrDef(NameN, "=", << <<"a">> >>), ArrDef(NameN, "+=", << <<"b">> >>)>>)
    /\ variables[NameN] = ValArray(<< <<"a">>, <<"b">> >>)

(***************************************************************************)
(* An editing session: ApmlEditor::wrap(lst) and a number of calls of      *)
(* append_var_ast, replace_var_ast, replace_var_lst and remove_var.        *)
(***************************************************************************)
\* The most calls in a session.
MaxCalls == 2

NameA == <<"a">>

NameB == <<"b">>

NameC == <<"c">>

Note == TComment(<<"n">>)

\* The lines a file is made of: empty, a comment, b=c, and a=b # n
EditLines ==
    { <<>>, <<Note>>,
      <<StrDef(NameB, "=", <<"c">>)>>,
      <<TVariable(NameA, "=", LvString(<<UUnquoted(<<LwLiteral(<<LString(<<"b">>)>>)>>)>>)),
        TSpacy(" "), Note>> }

\* The lines with a newline between them.
RECURSIVE JoinLines(_)
JoinLines(lines) ==
    IF lines = <<>> THEN <<>>
    ELSE Head(lines) \o (IF Len(lines) > 1 THEN <<TNewline>> ELSE <<>>)
         \o JoinLines(Tail(lines))

\* a=b # n / # n / # n / b=c / (empty) / # n / c=d
NotesFile ==
    JoinLines(<< <<TVariable(NameA, "=", LvString(<<UUnquoted(<<LwLiteral(<<LString(<<"b">>)>>)>>)>>)),
                   TSpacy(" "), Note>>,
                 <<Note>>, <<Note>>,
                 <<TVariable(NameB, "=", LvString(<<UUnquoted(<<LwLiteral(<<LString(<<"c">>)>>)>>)>>))>>,
                 <<>>, <<Note>>,
                 <<TVariable(NameC, "=", LvString(<<UUnquoted(<<LwLiteral(<<LString(<<"d">>)>>)>>)>>))>> >>)

\* Files of up to three lines, with and without a newline at the end.
EditFiles ==
    {JoinLines(ls) \o nl : ls \in SeqsUpTo(EditLines, 3), nl \in {<<>>, <<TNewline>>}}
    \cup {NotesFile}

\* The values given to append_var_ast and replace_var_ast.
EditValues ==
    { AvString(<<WLiteral(<<"x">>)>>),
      AvArray(<<AeText(<<WLiteral(<<"x">>)>>), AeText(<<WLiteral(<<"y">>)>>)>>) }

\* The values given to replace_var_lst: x, and (x"y"), which does not emit.
EditLstValues ==
    { LvString(<<UUnquoted(<<LwLiteral(<<LString(<<"x">>)>>)>>)>>),
      LvArray(<<AElement(<<UUnquoted(<<LwLiteral(<<LString(<<"x">>)>>)>>)>>),
                AElement(<<UDoubleQuote(<<LwLiteral(<<LString(<<"y">>)>>)>>)>>)>>) }

InitEdit ==
    /\ tokens \in {f \in EditFiles : ApmlAst_emit_from(f).st = "ok"}
    /\ build \in Builds
    /\ call = NoCall
    /\ before = <<>>
    /\ outcome = "none"
    /\ ncalls = 0
    /\ unemittable = FALSE
    /\ ModIdle
    /\ EvalIdle
    /\ ParseIdle
    /\ LaterIdle

\* A call may follow unless the session is over or the program has panicked.
CanCall == outcome # "panic" /\ ncalls < MaxCalls

\* What every call that returns leaves, but for the tokens.
Returned(c) ==
    /\ call' = c
    /\ before' = tokens
    /\ outcome' = "ok"
    /\ ncalls' = ncalls + 1
    /\ UNCHANGED <<build, notEdit>>

\* editor.append_var_ast(name, value, after)
AppendVarAst ==
    /\ CanCall
    /\ \E name \in {NameC}, v \in EditValues, after \in {<<>>, <<NameA>>, <<NameC>>} :
          /\ tokens' = append_var_ast(tokens, name, v, after)
          /\ Returned(Call("append_var_ast", name, 0, after, v, LvNone))
    /\ UNCHANGED unemittable

\* editor.replace_var_ast(name, value)
ReplaceVarAst ==
    /\ CanCall
    /\ \E name \in {NameB, NameC}, v \in EditValues :
          /\ tokens' = replace_var_ast(tokens, name, v)
          /\ Returned(Call("replace_var_ast", name, 0, <<>>, v, LvNone))
    /\ UNCHANGED unemittable

\* editor.replace_var_lst(name, value)
ReplaceVarLst ==
    /\ CanCall
    /\ \E name \in {NameB}, lv \in EditLstValues :
          /\ tokens' = replace_var_lst(tokens, name, lv)
          /\ unemittable' = (unemittable \/ VariableValue_emit_from(lv).st # "ok")
          /\ Returned(Call("replace_var_lst", name, 0, <<>>, AvString(<<>>), lv))

\* editor.remove_var(index), the index being that of a definition
RemoveVar ==
    /\ CanCall
    /\ \E index \in {i \in 0..(Len(tokens) - 1) : tokens[i + 1].k = "Variable"} :
          \E r \in {remove_var(tokens, index, build)} :
             /\ tokens' = r.tokens
             /\ outcome' = r.st
             /\ call' = Call("remove_var", <<>>, index, <<>>, AvString(<<>>), LvNone)
    /\ before' = tokens
    /\ ncalls' = ncalls + 1
    /\ UNCHANGED <<build, unemittable, notEdit>>

NextEdit == AppendVarAst \/ ReplaceVarAst \/ ReplaceVarLst \/ RemoveVar

SpecEdit == InitEdit /\ [][NextEdit]_vars

(***************************************************************************)
(* Properties of the editor, under SpecEdit.  Positions are those of a     *)
(* sequence, from 1.                                                       *)
(***************************************************************************)
IsAt(ts, i, k) == i \in 1..Len(ts) /\ ts[i].k = k

\* The position of the newline that ends the line of position p, or of the
\* last token of a last line without one.
LineEnd(ts, p) ==
    IF \E j \in p..Len(ts) : ts[j].k = "Newline"
    THEN CHOOSE j \in p..Len(ts) :
            ts[j].k = "Newline" /\ \A h \in p..(j - 1) : ts[h].k # "Newline"
    ELSE Len(ts)

\* The line after that of position p holds a variable definition.
NextLineHasVariable(ts, p) ==
    \E j \in (LineEnd(ts, p) + 1)..Len(ts) :
        /\ ts[j].k = "Variable"
        /\ \A h \in (LineEnd(ts, p) + 1)..j : ts[h].k # "Newline"

\* The `comment, newline` pairs directly above position p, each preceded by
\* a newline.
OrphanPairs(ts, p) ==
    SetMax({n \in 0..Len(ts) :
               \A i \in 1..n : /\ IsAt(ts, p - 2 * i, "Comment")
                               /\ IsAt(ts, p - 2 * i + 1, "Newline")
                               /\ IsAt(ts, p - 2 * i - 1, "Newline")})

\* The definition at position p removed with its line and its orphan pairs.
RemoveExpected(ts, p) ==
    SubSeq(ts, 1, p - 1 - 2 * OrphanPairs(ts, p)) \o SubSeq(ts, LineEnd(ts, p) + 1, Len(ts))

\* C6: remove_var(index), when the token two positions before the definition is
\* a comment and the line after the definition's holds no definition, deletes
\* the definition's line and every `comment, newline` pair directly above it
\* that is preceded by a newline, and no other token.
C6_RemoveOrphans ==
    (/\ call.k = "remove_var"
     /\ IsAt(before, call.index - 1, "Comment")
     /\ ~NextLineHasVariable(before, call.index + 1))
    => /\ outcome = "ok"
       /\ tokens = RemoveExpected(before, call.index + 1)

\* remove_var has deleted comments above a definition.
C6_Removed ==
    /\ call.k = "remove_var"
    /\ outcome = "ok"
    /\ OrphanPairs(before, call.index + 1) > 0
    /\ Len(tokens) < Len(before) - 2

\* How many of the tokens ts are the token t.
CountOf(ts, t) == Cardinality({i \in 1..Len(ts) : ts[i] = t})

\* C22: remove_var(index), the index being that of a definition wherever it
\* stands, returns, and the tokens then hold that definition once less.
C22_RemoveCompletes ==
    call.k = "remove_var" =>
        /\ outcome = "ok"
        /\ CountOf(tokens, before[call.index + 1]) < CountOf(before, before[call.index + 1])

\* The comment lines directly above the line that starts at position p: each
\* a comment alone on its line, the first line of the tokens included.
CommentLinesAbove(ts, p) ==
    SetMax({n \in 0..Len(ts) :
               \A i \in 1..n : /\ IsAt(ts, p - 2 * i, "Comment")
                               /\ IsAt(ts, p - 2 * i + 1, "Newline")
                               /\ (p - 2 * i = 1 \/ IsAt(ts, p - 2 * i - 1, "Newline"))})

\* The line of position p is followed by an empty line.
EmptyLineFollows(ts, p) ==
    IsAt(ts, LineEnd(ts, p), "Newline") /\ IsAt(ts, LineEnd(ts, p) + 1, "Newline")

\* C28: remove_var(index), when the line directly above the definition's is a
\* comment line and the definition's line is followed by an empty line,
\* removes every comment line of the block directly above the definition
\* together with the definition's line.
C28_CommentBlockRemoved ==
    (/\ call.k = "remove_var"
     /\ CommentLinesAbove(before, call.index + 1) > 0
     /\ EmptyLineFollows(before, call.index + 1))
    => /\ outcome = "ok"
       /\ tokens = SubSeq(before, 1,
                          call.index - 2 * CommentLinesAbove(before, call.index + 1))
                   \o SubSeq(before, LineEnd(before, call.index + 1) + 1, Len(before))

\* The literal x, as an LST value.
LiteralX == LvString(<<UUnquoted(<<LwLiteral(<<LString(<<"x">>)>>)>>)>>)

\* C23: after replace_var_lst(NAME, x) on tokens that emit and evaluate, the
\* tokens evaluate, and to a context that binds NAME to x.
C23_ReplacedValueIsBound ==
    (/\ call.k = "replace_var_lst"
     /\ call.lvalue = LiteralX
     /\ ApmlContext_eval_lst(before).st = "ok")
    => /\ ApmlContext_eval_lst(tokens).st = "ok"
       /\ call.name \in DOMAIN ApmlContext_eval_lst(tokens).ctx[1]
       /\ ApmlContext_eval_lst(tokens).ctx[1][call.name] = ValString(<<"x">>)

Emits == ApmlAst_emit_from(tokens).st = "ok"

\* C7 as stated: after any sequence of append, replace and remove calls on an
\* LST that emits, the LST emits.
C7_StillEmits == Emits

\* C7: after any sequence of append, replace and remove calls on an LST that
\* emits, replace having been given only values that emit, the LST emits.
C7_StillEmitsGivenEmittable == ~unemittable => Emits

\* Two calls have returned, the last of them a remove_var that deleted tokens,
\* and the LST emits.
C7_Edited ==
    /\ ncalls = 2
    /\ ~unemittable
    /\ call.k = "remove_var"
    /\ outcome = "ok"
    /\ Len(tokens) < Len(before)
    /\ before # <<>>
    /\ Emits


\* The places, from 1, of the definitions of nm among ts.
DefsOf(ts, nm) == {i \in 1..Len(ts) : ts[i].k = "Variable" /\ ts[i].name = nm}

\* The place of the first of them.
FirstDefOf(ts, nm) == CHOOSE i \in DefsOf(ts, nm) : \A h \in DefsOf(ts, nm) : i <= h

\* The place of the newline that ends the line of the token at i, 0 when the
\* line runs to the end of ts.
NewlineAfter(ts, i) ==
    IF \E p \in i..Len(ts) : ts[p].k = "Newline"
    THEN CHOOSE p \in i..Len(ts) :
             ts[p].k = "Newline" /\ \A h \in i..(p - 1) : ts[h].k # "Newline"
    ELSE 0

\* ts with the token as its last line, a newline coming first when ts does
\* not end with one.
AsLastLine(ts, token) ==
    ts \o (IF ts = <<>> \/ ts[Len(ts)].k = "Newline" THEN <<>> ELSE <<TNewline>>)
       \o <<token, TNewline>>

\* C18: append_var_ast(name, value, after) puts the assignment on a line of
\* its own right after the line of the first definition of `after` when there
\* is one, and as the last line otherwise, after a newline when the tokens do
\* not end with one; the tokens there were keep their content and order.
C18_Append ==
    call.k = "append_var_ast" =>
        LET new == TVariable(call.name, "=", VariableValue_lower(call.value))
        IN IF call.after # <<>> /\ DefsOf(before, call.after[1]) # {}
           THEN LET p == NewlineAfter(before, FirstDefOf(before, call.after[1]))
                IN IF p > 0
                   THEN tokens = SubSeq(before, 1, p) \o <<new, TNewline>>
                                     \o SubSeq(before, p + 1, Len(before))
                   ELSE tokens = before \o <<TNewline, new, TNewline>>
           ELSE tokens = AsLastLine(before, new)

\* An assignment has been appended after the line of a definition that is not
\* the last line.
C18_Appended ==
    /\ call.k = "append_var_ast"
    /\ call.after # <<>>
    /\ DefsOf(before, call.after[1]) # {}
    /\ NewlineAfter(before, FirstDefOf(before, call.after[1])) \in 1..(Len(before) - 1)
    /\ Len(tokens) = Len(before) + 2

\* C19: replace_var_lst(name, value) puts an assignment of the value in the
\* place of the first definition of the name, the number of tokens and every
\* other token staying as they were; when the name has no definition, the
\* assignment becomes the last line, after a newline when the tokens do not
\* end with one.  replace_var_ast does the same with the value lowered.
C19_Replace ==
    call.k \in {"replace_var_lst", "replace_var_ast"} =>
        LET new == TVariable(call.name, "=",
                             IF call.k = "replace_var_lst" THEN call.lvalue
                             ELSE VariableValue_lower(call.value))
        IN IF DefsOf(before, call.name) # {}
           THEN /\ Len(tokens) = Len(before)
                /\ \A i \in 1..Len(before) :
                      tokens[i] = (IF i = FirstDefOf(before, call.name) THEN new
                                   ELSE before[i])
           ELSE tokens = AsLastLine(before, new)

\* The first of two definitions of a name has been replaced by
\* replace_var_lst.
C19_Replaced ==
    /\ call.k = "replace_var_lst"
    /\ Cardinality(DefsOf(before, call.name)) = 2
    /\ tokens # before
    /\ tokens[FirstDefOf(before, call.name)].value = call.lvalue

(***************************************************************************)
(* Parsing a source text and writing it back: ApmlLst::parse(src) and      *)
(* to_string().                                                            *)
(***************************************************************************)
\* The most parts in a pattern of the sources.
MaxPatternParts == 2

\* The lists of the extglob forms: empty, a, a|b, a| and |a
ListTexts ==
    {<<>>, <<"a">>, <<"a", "|", "b">>, <<"a", "|">>, <<"|", "a">>}

PartTexts ==
    {<<"a">>, <<"*">>, <<"?">>, <<"\\", "a">>, <<"[", "a", "]">>}
    \cup {<<c, "(">> \o l \o <<")">> : c \in {"?", "@"}, l \in ListTexts}

PatternTexts == {Concat(ps) : ps \in SeqsUpTo(PartTexts, MaxPatternParts)}

ModifierTexts ==
    {tg \o p : tg \in {<<"#">>, <<"#", "#">>, <<"%">>, <<"%", "%">>, <<"^">>, <<"^", "^">>,
                       <<",">>, <<",", ",">>},
               p \in PatternTexts}
    \cup {tg \o p \o tx : tg \in {<<"/">>, <<"/", "/">>, <<"/", "#">>, <<"/", "%">>},
                          p \in {<<"a">>, <<"?">>, <<"@", "(", "a", "|", ")">>, <<>>},
                          tx \in {<<>>, <<"/">>, <<"/", "x">>, <<"/", "$", "a">>}}
    \cup {tg \o tx : tg \in {<<":", "?">>, <<":", "-">>, <<":", "+">>},
                     tx \in {<<>>, <<"x">>, <<"'", "x", "'", "$", "a">>}}
    \cup {<<>>, <<":", "1">>, <<":", "1", ":", "2">>, <<":", " ", "-", "1">>,
          <<":", "1", ":">>, <<":">>}

\* a=${b<modifier>}
ExpansionSources ==
    {<<"a", "=", "$", "{", "b">> \o m \o <<"}">> : m \in ModifierTexts}

\* The lines of the other sources.
SourceLines ==
    { <<>>, <<" ">>, <<"#", " ", "n">>, <<"a", "=", "b">>, <<"a", "=">>,
      <<"a", "=", "b", " ", "#", "n">>, <<"\t", "a", "=", "'", "b", " ", "c", "'">>,
      <<"a", "=", "\"", "b", " ", "$", "c", "\\", "\"", "\"">>,
      <<"a", "=", "b", "\\", "\n", "c">>, <<"a", "=", "$", "b", "x", "'", "c", "'">>,
      <<"a", "=", "$", "{", "#", "b", "}">>, <<"a", "=", "\"", "$", "\"">>,
      <<"a", "=", "'", "b">>, <<"=", "b">>, <<"a", "=", "$", "{", "b">>,
      <<"a", "=", "é", "'", "b">> }

Sources ==
    ExpansionSources
    \cup {JoinWith(ls, <<"\n">>) : ls \in SeqsUpTo(SourceLines, 2)}

InitParse ==
    /\ source \in Sources
    /\ parsed = NoParse
    /\ serialized = <<>>
    /\ ModIdle
    /\ EvalIdle
    /\ EditIdle
    /\ LaterIdle

\* ApmlLst::parse(src)
Parse ==
    /\ parsed = NoParse
    /\ parsed' = ApmlLst_parse(source)
    /\ UNCHANGED <<source, serialized, notParse>>

\* lst.to_string()
Serialize ==
    /\ parsed.st = "ok"
    /\ serialized = <<>>
    /\ serialized' = <<ApmlLst_fmt(parsed.v)>>
    /\ UNCHANGED <<source, parsed, notParse>>

NextParse == Parse \/ Serialize

SpecParse == InitParse /\ [][NextParse]_vars

(***************************************************************************)
(* Properties of the parser, under SpecParse.                              *)
(***************************************************************************)
\* C1: the text of the LST parsed from a source text is that source text,
\* character for character.
C1_RoundTrip == serialized # <<>> => serialized[1] = source

\* C21: the position of a parse error is that of the first character left
\* unparsed, counted in characters from 1 and not in bytes.
C21_PositionInCharacters ==
    parsed.st = "UnexpectedSource" =>
        parsed.pos = Len(source) - Len(apml_lst_loop(source, <<>>).rest) + 1

(***************************************************************************)
(* Coercing a list value to a scalar and the scalar back to a list:        *)
(* VariableValue::into_string and VariableValue::into_array (apml/mod.rs). *)
(***************************************************************************)
\* The longest list coerced.
MaxItems == 3

\* The elements: empty, plain, and with a space, a tab, or a newline inside.
ItemTexts ==
    { <<>>, <<"a">>, <<"b">>, <<"a", "b">>,
      <<"a", " ", "b">>, <<"a", "\t">>, <<"\n", "b">> }

InitCoerce ==
    /\ items \in SeqsUpTo(ItemTexts, MaxItems)
    /\ joined = <<>>
    /\ resplit = <<>>
    /\ IdleBut("coerce")

\* VariableValue::Array(items).into_string()
IntoString ==
    /\ joined = <<>>
    /\ joined' = <<into_string(ValArray(items))>>
    /\ UNCHANGED <<items, resplit, notCoerce>>

\* VariableValue::String(joined).into_array()
IntoArray ==
    /\ joined # <<>>
    /\ resplit = <<>>
    /\ resplit' = <<into_array(ValString(joined[1]))>>
    /\ UNCHANGED <<items, joined, notCoerce>>

NextCoerce == IntoString \/ IntoArray

SpecCoerce == InitCoerce /\ [][NextCoerce]_vars

HasBlank(s) == \E i \in 1..Len(s) : s[i] \in {" ", "\t", "\n"}

\* C13 as stated: a list whose elements hold no space, tab or newline comes
\* back unchanged from the conversion to a scalar and back to a list.
C13_RoundTrip ==
    (resplit # <<>> /\ \A i \in 1..Len(items) : ~HasBlank(items[i]))
        => resplit[1] = items

\* C13: a list whose elements are not empty and hold no space, tab or newline
\* comes back unchanged from the conversion to a scalar and back to a list.
C13_RoundTripNonEmpty ==
    (resplit # <<>> /\ \A i \in 1..Len(items) : items[i] # <<>> /\ ~HasBlank(items[i]))
        => resplit[1] = items

\* A list of two elements without blanks has made the round trip.
C13_Coerced ==
    /\ resplit # <<>>
    /\ Len(items) = 2
    /\ \A i \in 1..Len(items) : items[i] # <<>> /\ ~HasBlank(items[i])
    /\ resplit[1] = items

(***************************************************************************)
(* The canonical form of a source text: the text of the lowered AST,       *)
(* emit(t).lower().to_string(), evaluated next to the text itself.         *)
(***************************************************************************)
\* The lines of the texts: definitions of a with every quoting, `+=` and
\* arrays, definitions of c that expand a with every kind of modifier, and a
\* comment.
CanonLines ==
    { <<"a", "=", "b">>,
      <<"a", "=", "'", "b", " ", "$", "c", "'">>,
      <<"a", "=", "\"", "b", "\\", "\"", "c", "\"">>,
      <<"a", "=", "b", "\\", " ", "c">>,
      <<"a", "+", "=", "c">>,
      <<"a", "=", "(", "b", " ", "c", ")">>,
      <<"a", "+", "=", "(", "d", ")">>,
      <<"a", "=", "(", "b", " ", "'", "c", " ", "d", "'", " ", "#", "n", "\n", " ", "x", ")">>,
      <<"c", "=", "$", "a">>,
      <<"c", "=", "\"", "$", "{", "a", "}", "x", "\"">>,
      <<"c", "=", "$", "{", "a", ":", "1", "}">>,
      <<"c", "=", "$", "{", "a", ":", "0", ":", "-", "1", "}">>,
      <<"c", "=", "$", "{", "a", "#", "b", "}">>,
      <<"c", "=", "$", "{", "a", "/", "b", "}">>,
      <<"c", "=", "$", "{", "a", "/", "b", "/", "x", "}">>,
      <<"c", "=", "$", "{", "a", ":", "-", "x", "}">>,
      <<"c", "=", "$", "{", "a", ":", "+", "'", "y", "'", "}">>,
      <<"c", "=", "$", "{", "a", ":", "?", "m", "}">>,
      <<"c", "=", "$", "{", "#", "a", "}">>,
      <<"c", "=", "$", "{", "a", "^", "^", "?", "}">>,
      <<"c", "=", "\"", "$", "{", "a", "[", "@", "]", "}", "\"">>,
      <<"c", "=", "(", "$", "{", "a", "[", "*", "]", "}", ")">>,
      <<"c", "=", "(", "x", " ", "\"", "$", "{", "a", "[", "@", "]", "}", "\"", ")">>,
      <<"c", "=", "(", "\"", "$", "{", "a", "[", "@", "]", "}", "\"", ")">>,
      <<"a", "=">>,
      <<"c", "=", "$", "{", "a", "%", "@", "(", "b", "|", ")", "}">>,
      <<"#", " ", "n">> }

\* The texts of one line and of two.
CanonSources ==
    CanonLines \cup {l \o <<"\n">> \o m : l \in CanonLines, m \in CanonLines}

InitCanon ==
    /\ origin \in CanonSources
    /\ lowered = <<>>
    /\ outcomes = <<>>
    /\ IdleBut("canon")

\* ApmlAst::emit_from(&ApmlLst::parse(origin)?)?.lower().to_string()
WriteCanonical ==
    /\ lowered = <<>>
    /\ \E t \in {ApmlLst_parse(origin)} :
          /\ t.st = "ok"
          /\ \E tr \in {ApmlAst_emit_from(t.v)} :
                /\ tr.st = "ok"
                /\ lowered' = <<ApmlLst_fmt(ApmlAst_lower(tr.v))>>
    /\ UNCHANGED <<origin, outcomes, notCanon>>

\* ApmlContext::eval_source of the text and of its canonical form
EvalBoth ==
    /\ lowered # <<>>
    /\ outcomes = <<>>
    /\ outcomes' = <<ApmlContext_eval_source(origin), ApmlContext_eval_source(lowered[1])>>
    /\ UNCHANGED <<origin, lowered, notCanon>>

NextCanon == WriteCanonical \/ EvalBoth

SpecCanon == InitCanon /\ [][NextCanon]_vars

MaxTokens == 4

\* M=${N:x}, whose offset is no number: a definition that does not emit
UnparsableDef ==
    TVariable(NameM, "=",
        LvString(<<UUnquoted(<<LwBraced(NameN, <<LmSubstring(<<"x">>, <<>>)>>)>>)>>))

\* Blank space, a newline, a comment, N="a", M+=(b), M=${N:x}, and M=(a"b")
\* whose elements lack a delimiter.
RootTokens ==
    { TSpacy(" "), TNewline, TComment(<<"n">>),
      StrDef(NameN, "=", <<"a">>), ArrDef(NameM, "+=", << <<"b">> >>),
      UnparsableDef,
      TVariable(NameM, "=",
          LvArray(<<AElement(<<UUnquoted(<<LwLiteral(<<LString(<<"a">>)>>)>>)>>),
                    AElement(<<UDoubleQuote(<<LwLiteral(<<LString(<<"b">>)>>)>>)>>)>>)) }

\* Blank space, a newline, a comment, the elements a, "${N[@]}" and ${N:x}.
ArrayTokens ==
    { ASpacy(" "), ANewline, AComment(<<"n">>),
      AElement(<<UUnquoted(<<LwLiteral(<<LString(<<"a">>)>>)>>)>>),
      AElement(<<UDoubleQuote(<<LwBraced(NameN, <<LmPlain("ArrayElements")>>)>>)>>),
      AElement(<<UUnquoted(<<LwBraced(NameN, <<LmSubstring(<<"x">>, <<>>)>>)>>)>>) }

InitEmit ==
    /\ subject \in [level : {"root"}, tokens : SeqsUpTo(RootTokens, MaxTokens)]
                   \cup [level : {"array"}, tokens : SeqsUpTo(ArrayTokens, MaxTokens)]
    /\ emitted = <<>>
    /\ IdleBut("emit")

\* ApmlAst::emit_from(&ApmlLst(tokens))
EmitRoot ==
    /\ subject.level = "root"
    /\ emitted = <<>>
    /\ emitted' = <<ApmlAst_emit_from(subject.tokens)>>
    /\ UNCHANGED <<subject, notEmit>>

\* VariableValue::emit_from(&lst::VariableValue::Array(tokens))
EmitArray ==
    /\ subject.level = "array"
    /\ emitted = <<>>
    /\ emitted' = <<VariableValue_emit_from(LvArray(subject.tokens))>>
    /\ UNCHANGED <<subject, notEmit>>

NextEmit == EmitRoot \/ EmitArray

SpecEmit == InitEmit /\ [][NextEmit]_vars

\* The tokens of kind k among ts, in their order.
OfKind(ts, k) == SelectSeq(ts, LAMBDA t : t.k = k)

\* Some definition of ts comes with no newline since a definition or a
\* comment before it.
RootUndelimited(ts) ==
    \E j \in 1..Len(ts) :
        /\ ts[j].k = "Variable"
        /\ \E i \in 1..(j - 1) :
              /\ ts[i].k \in {"Variable", "Comment"}
              /\ \A h \in (i + 1)..(j - 1) : ts[h].k # "Newline"

\* C15: when every definition among the tokens emits, emitting the tokens
\* fails with MissingRootElementDelimiter exactly when a definition comes with
\* no newline since the definition or comment before it, and gives the
\* definitions emitted in token order otherwise.
C15_RootDelimiter ==
    (/\ emitted # <<>>
     /\ subject.level = "root"
     /\ \A j \in 1..Len(subject.tokens) :
           subject.tokens[j].k = "Variable"
           => VariableDefinition_emit_from(subject.tokens[j]).st = "ok")
    => emitted[1] =
         (IF RootUndelimited(subject.tokens)
          THEN EErr("MissingRootElementDelimiter")
          ELSE EOk([j \in 1..Len(OfKind(subject.tokens, "Variable")) |->
                       VariableDefinition_emit_from(OfKind(subject.tokens, "Variable")[j]).v]))

\* A definition right after a comment has failed the emission, and so has a
\* definition after blank space only.
C15_Emitted ==
    /\ emitted # <<>>
    /\ subject.level = "root"
    /\ emitted[1] = EErr("MissingRootElementDelimiter")
    /\ Len(subject.tokens) = 3
    /\ subject.tokens[1].k \in {"Comment", "Variable"}
    /\ subject.tokens[2].k = "Spacy"
    /\ subject.tokens[3] = StrDef(NameN, "=", <<"a">>)

\* Some element of ts comes with no blank space or newline since the element
\* before it, or with no newline since a comment before it.
ArrayUndelimited(ts) ==
    \E j \in 1..Len(ts) :
        /\ ts[j].k = "Element"
        /\ \/ \E i \in 1..(j - 1) :
                 /\ ts[i].k = "Element"
                 /\ \A h \in (i + 1)..(j - 1) : ts[h].k \notin {"Spacy", "Newline"}
           \/ \E i \in 1..(j - 1) :
                 /\ ts[i].k = "Comment"
                 /\ \A h \in (i + 1)..(j - 1) : ts[h].k # "Newline"

\* C16: when every element among the tokens of an array emits, emitting the
\* array fails with MissingArrayElementDelimiter, which is not the error of
\* the root level, exactly when an element comes with no blank space or
\* newline since the element before it or with no newline since a comment
\* before it, and gives the elements emitted in token order otherwise.
C16_ArrayDelimiter ==
    (/\ emitted # <<>>
     /\ subject.level = "array"
     /\ \A j \in 1..Len(subject.tokens) :
           subject.tokens[j].k = "Element"
           => ArrayElement_emit_from(subject.tokens[j]).st = "ok")
    => /\ emitted[1] =
            (IF ArrayUndelimited(subject.tokens)
             THEN EErr("MissingArrayElementDelimiter")
             ELSE EOk(AvArray([j \in 1..Len(OfKind(subject.tokens, "Element")) |->
                          ArrayElement_emit_from(OfKind(subject.tokens, "Element")[j]).v])))
       /\ emitted[1] # EErr("MissingRootElementDelimiter")

\* An element after a comment and blank space has failed the emission of an
\* array.
C16_Emitted ==
    /\ emitted # <<>>
    /\ subject.level = "array"
    /\ emitted[1] = EErr("MissingArrayElementDelimiter")
    /\ Len(subject.tokens) = 3
    /\ subject.tokens[1].k = "Comment"
    /\ subject.tokens[2].k = "Spacy"
    /\ subject.tokens[3].k = "Element"

(***************************************************************************)
(* A caller of the evaluator: ApmlContext::eval_ast (apml/mod.rs) returns  *)
(* a context of its own, eval::eval_ast (apml/eval.rs) evaluates into the  *)
(* context its caller lends it.                                            *)
(***************************************************************************)
\* What a call returned: r is [st, v, ctx], ctx being <<the context>> of an
\* Ok(context) and <<>> otherwise.
Reply(fn, r) == [fn |-> fn, r |-> r]

InitFail ==
    /\ program \in {ApmlAst_emit_from(p).v : p \in {q \in Programs : ApmlAst_emit_from(q).st = "ok"}}
    /\ held = EmptyContext
    /\ received = <<>>
    /\ IdleBut("fail")

\* ApmlContext::eval_ast(&program)
CallContextEvalAst ==
    /\ received = <<>>
    /\ received' = <<Reply("ApmlContext::eval_ast", ApmlContext_eval_ast(program))>>
    /\ UNCHANGED <<program, held, notFail>>

\* eval::eval_ast(&mut held, &program)
CallEvalAst ==
    /\ received = <<>>
    /\ \E r \in {eval_ast(held, program)} :
          /\ held' = r.apml
          /\ received' = <<Reply("eval::eval_ast", [st |-> r.st, v |-> r.v, ctx |-> <<>>])>>
    /\ UNCHANGED <<program, notFail>>

NextFail == CallContextEvalAst \/ CallEvalAst

SpecFail == InitFail /\ [][NextFail]_vars

\* C17: when the evaluation of an AST fails, the caller has the error alone:
\* no context is returned, and the context the caller holds has none of the
\* bindings of the definitions before the failure.
C17_OnlyTheError ==
    (received # <<>> /\ received[1].r.st # "ok")
    => /\ received[1].r.ctx = <<>>
       /\ held = EmptyContext

(***************************************************************************)
(* ApmlFileAccess (libpfu/apml.rs): an LST with its AST and its context    *)
(* cached, each cache filled by the first read after a modification.       *)
(***************************************************************************)
\* The most tokens an LST may hold for with_editor to append to it.
MaxLstLen == 3

\* The texts of the files opened and of those with_text writes: a=b, two
\* lines, a list, two definitions on a line (no AST), an expansion that fails
\* when a is unset, and an unclosed quote (no LST).
AccessTexts ==
    { <<"a", "=", "b">>,
      <<"a", "=", "b", "\n", "c", "=", "$", "a">>,
      <<"a", "=", "(", "b", " ", "c", ")", "\n">>,
      <<"a", "=", "b", " ", "c", "=", "d">>,
      <<"c", "=", "$", "{", "a", ":", "?", "m", "}">>,
      <<"a", "=", "'", "b">> }

\* What a call returned: st is "ok", the name of an error, or "panic".
Got(k, st, v) == [k |-> k, st |-> st, v |-> v]

\* ApmlFileAccess::open of a file that parses, emits and evaluates
InitAccess ==
    /\ \E text \in AccessTexts :
          \E t \in {ApmlLst_parse(text)} :
             /\ t.st = "ok"
             /\ \E tr \in {ApmlAst_emit_from(t.v)} :
                   /\ tr.st = "ok"
                   /\ \E c \in {ApmlContext_eval_ast(tr.v)} :
                         /\ c.st = "ok"
                         /\ inner_lst = <<t.v>>
                         /\ inner_ast = <<tr.v>>
                         /\ self_ctx = c.ctx
                         /\ disk = text
    /\ dirty = FALSE
    /\ prior = <<>>
    /\ got = Got("open", "ok", <<>>)
    /\ IdleBut("access")

\* A call may follow unless one has panicked.
Usable == got.st # "panic"

\* A beginning of the modifications that leaves the context cached.
TakeLst_keeping_ctx(k) ==
    /\ Usable
    /\ UNCHANGED self_ctx
    /\ dirty' = TRUE
    /\ inner_ast' = <<>>
    /\ prior' = (IF k = "with_text" THEN inner_lst ELSE <<>>)
    /\ UNCHANGED disk
    /\ inner_lst = <<>> => (inner_lst' = <<>> /\ got' = Got(k, "panic", <<>>))

\* What with_lst, with_editor and with_text do first: self.ctx = None,
\* mark_dirty(), *inner.ast = None, and inner.lst.take().expect(..), which
\* panics on a None.
TakeLst(k) ==
    /\ Usable
    /\ self_ctx' = <<>>
    /\ dirty' = TRUE
    /\ inner_ast' = <<>>
    /\ prior' = (IF k = "with_text" THEN inner_lst ELSE <<>>)
    /\ UNCHANGED disk
    /\ inner_lst = <<>> => (inner_lst' = <<>> /\ got' = Got(k, "panic", <<>>))

\* with_lst(f): f leaves the tokens of any LST there
WithLst ==
    /\ TakeLst("with_lst")
    /\ inner_lst # <<>> =>
          /\ \E text \in AccessTexts :
                \E t \in {ApmlLst_parse(text)} :
                   /\ t.st = "ok"
                   /\ inner_lst' = <<t.v>>
          /\ got' = Got("with_lst", "ok", <<>>)
    /\ UNCHANGED notAccess

\* What f does with the editor in with_editor(f): nothing, a replace_var_lst
\* or an append_var_ast.
Edits(ts) ==
    {ts}
    \cup {replace_var_lst(ts, NameA, lv) : lv \in EditLstValues}
    \cup {append_var_ast(ts, NameC, v, <<>>) :
             v \in {w \in {AvString(<<WLiteral(<<"x">>)>>)} : Len(ts) < MaxLstLen}}

\* with_editor(f)
WithEditor ==
    /\ TakeLst("with_editor")
    /\ inner_lst # <<>> =>
          /\ \E ts \in Edits(inner_lst[1]) : inner_lst' = <<ts>>
          /\ got' = Got("with_editor", "ok", <<>>)
    /\ UNCHANGED notAccess

\* with_text(f): f returns any text; a text that does not parse leaves the
\* old inner, its LST taken.
WithText ==
    /\ TakeLst("with_text")
    /\ inner_lst # <<>> =>
          \E text \in AccessTexts :
             \E t \in {ApmlLst_parse(text)} :
                /\ inner_lst' = (IF t.st = "ok" THEN <<t.v>> ELSE <<>>)
                /\ got' = Got("with_text", t.st, <<>>)
    /\ UNCHANGED notAccess

\* ast() on these caches: [st, v, ast], ast being the cache it leaves
ReadAst ==
    IF inner_ast # <<>> THEN [st |-> "ok", v |-> inner_ast[1], ast |-> inner_ast]
    ELSE IF inner_lst = <<>> THEN [st |-> "panic", v |-> <<>>, ast |-> inner_ast]
    ELSE The({IF tr.st = "ok" THEN [st |-> "ok", v |-> tr.v, ast |-> <<tr.v>>]
              ELSE [st |-> tr.e, v |-> <<>>, ast |-> inner_ast] :
              tr \in {ApmlAst_emit_from(inner_lst[1])}})

\* ast()
Ast ==
    /\ Usable
    /\ \E r \in {ReadAst} :
          /\ inner_ast' = r.ast
          /\ got' = Got("ast", r.st, r.v)
    /\ UNCHANGED <<inner_lst, self_ctx, dirty, prior, disk, notAccess>>

\* ctx()
Ctx ==
    /\ Usable
    /\ IF self_ctx # <<>>
       THEN /\ got' = Got("ctx", "ok", self_ctx[1])
            /\ UNCHANGED <<inner_ast, self_ctx>>
       ELSE \E r \in {ReadAst} :
               /\ inner_ast' = r.ast
               /\ IF r.st # "ok"
                  THEN got' = Got("ctx", r.st, <<>>) /\ UNCHANGED self_ctx
                  ELSE \E c \in {ApmlContext_eval_ast(r.v)} :
                          /\ self_ctx' = c.ctx
                          /\ got' = Got("ctx", c.st, IF c.st = "ok" THEN c.ctx[1] ELSE <<>>)
    /\ UNCHANGED <<inner_lst, dirty, prior, disk, notAccess>>

\* save(): the flag is cleared before the text is made, which panics on a
\* taken LST, and before fs::write, which may fail and leave the file as it
\* was or cut short.
Save ==
    /\ Usable
    /\ IF ~dirty
       THEN got' = Got("save", "ok", <<>>) /\ UNCHANGED <<dirty, disk>>
       ELSE /\ dirty' = FALSE
            /\ IF inner_lst = <<>>
               THEN got' = Got("save", "panic", <<>>) /\ UNCHANGED disk
               ELSE \/ /\ disk' = ApmlLst_fmt(inner_lst[1])
                       /\ got' = Got("save", "ok", <<>>)
                    \/ /\ disk' \in {disk, <<>>}
                       /\ got' = Got("save", "io", <<>>)
    /\ UNCHANGED <<inner_lst, inner_ast, self_ctx, prior, notAccess>>

NextAccess == WithLst \/ WithEditor \/ WithText \/ Ast \/ Ctx \/ Save

SpecAccess == InitAccess /\ [][NextAccess]_vars

\* C20: an ast() that succeeds returns what the LST now held emits, and a
\* ctx() that succeeds the evaluation of that: neither returns a value made
\* from the LST of before the last modification.
C20_ReadsAreFresh ==
    /\ (got.k = "ast" /\ got.st = "ok") =>
           /\ inner_lst # <<>>
           /\ ApmlAst_emit_from(inner_lst[1]) = EOk(got.v)
    /\ (got.k = "ctx" /\ got.st = "ok") =>
           /\ inner_lst # <<>>
           /\ ApmlContext_eval_lst(inner_lst[1]).st = "ok"
           /\ ApmlContext_eval_lst(inner_lst[1]).ctx = <<got.v>>

\* C25: a with_text whose text does not parse returns the error and leaves
\* the accessor with the LST it held before the call.
C25_FailedTextKeepsLst ==
    (got.k = "with_text" /\ got.st = "UnexpectedSource")
    => /\ inner_lst # <<>>
       /\ inner_lst = prior

\* C26: whatever modifications and save() calls have been made, failed writes
\* included, an accessor that is not dirty has on disk the text of its LST.
C26_CleanMeansSaved ==
    (~dirty /\ got.st # "panic")
    => /\ inner_lst # <<>>
       /\ disk = ApmlLst_fmt(inner_lst[1])

\* After a modification of an accessor whose context was cached, ctx() has
\* returned a context that is not the one of the file opened.
C20_Reread ==
    /\ got.k = "ctx"
    /\ got.st = "ok"
    /\ dirty
    /\ <<"c">> \in DOMAIN got.v
    /\ got.v[<<"c">>] = ValString(<<"x">>)

(***************************************************************************)
(* Lowering an AST node and emitting the LST made: AstNode::lower followed *)
(* by AstNode::emit_from, for every kind of node (apml/ast.rs).            *)
(***************************************************************************)
\* The modifiers: substrings with and without a length, a strip, a
\* replacement with and without a text, a default text, and the length.
LowerModifiers ==
    { MSubstring(1, <<>>), MSubstring(0, <<-1>>), MSubstring(2, <<1>>),
      MPattern("StripShortestPrefix", <<GString(<<"b">>)>>),
      MReplace("ReplaceOnce", <<GString(<<"b">>)>>, <<>>),
      MReplace("ReplaceAll", <<GString(<<"b">>)>>, <<WLiteral(<<"x">>)>>),
      MText("WhenUnset", <<WVariable(NameM, <<>>)>>),
      MLength }

\* The variable expansions: $N bare and with each modifier.
LowerExpansions ==
    {WVariable(NameN, <<>>)} \cup {WVariable(NameN, <<m>>) : m \in LowerModifiers}

\* The words: literals, empty, plain and of characters that are escaped, the
\* expansions, and the sub-command $(x).
LowerWords ==
    { WLiteral(<<>>), WLiteral(<<"a">>), WLiteral(<<"a", "$">>), WLiteral(<<"\"">>),
      WSubcommand(<<"$", "(", "x", ")">>) }
    \cup LowerExpansions

\* The texts: of no word, of one, and of two with a literal first.
LowerTexts ==
    {<<>>} \cup {<<w>> : w \in LowerWords}
    \cup {<<WLiteral(<<"a">>), w>> : w \in LowerWords}

\* The elements of arrays.
LowerElements == {AeInclusion(NameN)} \cup {AeText(t) : t \in LowerTexts}

\* The values: the texts, and the arrays of no element, of one, and of two
\* with an inclusion first.
LowerValues ==
    {AvString(t) : t \in LowerTexts}
    \cup {AvArray(<<>>)} \cup {AvArray(<<e>>) : e \in LowerElements}
    \cup {AvArray(<<AeInclusion(NameM), e>>) : e \in LowerElements}

Node(kind, a) == [kind |-> kind, a |-> a]

InitLower ==
    /\ \/ node \in {Node("modifier", m) : m \in LowerModifiers}
       \/ node \in {Node("expansion", w) : w \in LowerExpansions}
       \/ node \in {Node("word", w) : w \in LowerWords}
       \/ node \in {Node("text", t) : t \in LowerTexts}
       \/ node \in {Node("element", e) : e \in LowerElements}
       \/ node \in {Node("value", v) : v \in LowerValues}
       \/ node \in {Node("definition", ADefinition(NameN, v)) : v \in LowerValues}
    /\ back = <<>>
    /\ IdleBut("lower")

\* ExpansionModifier, VariableExpansion and Word: emit_from(&a.lower())
EmitLoweredWord ==
    /\ back = <<>>
    /\ node.kind \in {"modifier", "expansion", "word"}
    /\ back' = <<CASE node.kind = "modifier" ->
                        ExpansionModifier_emit_from(ExpansionModifier_lower(node.a))
                   [] node.kind = "expansion" ->
                        The({VariableExpansion_emit_from(l.name, l.mod) :
                             l \in {Word_lower(node.a)}})
                   [] node.kind = "word" -> Word_emit_from(Word_lower(node.a))>>
    /\ UNCHANGED <<node, notLower>>

\* Text and ArrayElement: emit_from(&a.lower())
EmitLoweredText ==
    /\ back = <<>>
    /\ node.kind \in {"text", "element"}
    /\ back' = <<IF node.kind = "text" THEN Text_emit_from(Text_lower(node.a))
                 ELSE ArrayElement_emit_from(ArrayElement_lower(node.a))>>
    /\ UNCHANGED <<node, notLower>>

\* VariableValue and VariableDefinition: emit_from(&a.lower())
EmitLoweredValue ==
    /\ back = <<>>
    /\ node.kind \in {"value", "definition"}
    /\ back' = <<IF node.kind = "value"
                 THEN VariableValue_emit_from(VariableValue_lower(node.a))
                 ELSE VariableDefinition_emit_from(VariableDefinition_lower(node.a))>>
    /\ UNCHANGED <<node, notLower>>

NextLower == EmitLoweredWord \/ EmitLoweredText \/ EmitLoweredValue

SpecLower == InitLower /\ [][NextLower]_vars

\* C24: emitting the LST made by lowering an AST node succeeds and gives the
\* node back, whatever the kind of the node.
C24_EmitOfLower == back # <<>> => back[1] = EOk(node.a)

(***************************************************************************)
(* Pep517Linter (libpfu-fixers/python/pep517.rs) on a defines accessor.    *)
(* What the linter learns from outside the accessor is its environment:    *)
(* whether the source tree has a pyproject.toml ("yes", "no", or "err" for *)
(* a failed look or a failed collect_deps), and for each collected         *)
(* dependency whether it is a build dependency and what                    *)
(* find_system_package answered for it.                                    *)
(***************************************************************************)
Str_ABTYPE == <<"A", "B", "T", "Y", "P", "E">>

Str_NOPYTHON2 == <<"N", "O", "P", "Y", "T", "H", "O", "N", "2">>

Str_PKGDEP == <<"P", "K", "G", "D", "E", "P">>

Str_BUILDDEP == <<"B", "U", "I", "L", "D", "D", "E", "P">>

Str_python == <<"p", "y", "t", "h", "o", "n">>

Str_python2 == Str_python \o <<"-", "2">>

Str_python3 == Str_python \o <<"-", "3">>

\* impl From<S> for StringArray
StringArray_from(text) == SplitLoop(text, <<>>, <<>>)

\* StringArray::print, the loop over the values after the first
RECURSIVE print_words(_, _, _, _)
print_words(values, j, line_len, printed) ==
    IF j > Len(values) THEN printed
    ELSE IF line_len + Len(values[j]) > 75
    THEN print_words(values, j + 1, 6 + Len(values[j]),
                     printed \o <<LwLiteral(<<LString(<<" ">>), LLineContinuation,
                                            LString(<<"\t">>)>>),
                                LwLiteral(LiteralPart_escape(values[j]))>>)
    ELSE print_words(values, j + 1, line_len + Len(values[j]) + 1,
                     printed \o <<LwLiteral(<<LString(<<" ">>)>>),
                                LwLiteral(LiteralPart_escape(values[j]))>>)

\* StringArray::print
StringArray_print(values) ==
    <<UDoubleQuote(IF values = <<>> THEN <<>>
                   ELSE print_words(values, 2, 10 + Len(values[1]),
                                    <<LwLiteral(LiteralPart_escape(values[1]))>>))>>

\* ctx.get(name).map(|val| val.as_string()), <<>> for None
ctx_string(ctx, name) == IF name \in DOMAIN ctx THEN <<into_string(ctx[name])>> ELSE <<>>

Contains(values, v) == \E j \in 1..Len(values) : values[j] = v

\* Vec::remove(position of the first v)
RemoveFirst(values, v) ==
    The({SubSeq(values, 1, pos - 1) \o SubSeq(values, pos + 1, Len(values)) :
         pos \in {CHOOSE j \in 1..Len(values) :
                     values[j] = v /\ \A h \in 1..(j - 1) : values[h] # v}})

\* ABTYPE=python is removed
pep517_abtype(acc, is_dry, checks) ==
    The({IF c.st # "ok" THEN Linted("err", acc.lst, acc.dirty)
         ELSE IF ctx_string(c.ctx[1], Str_ABTYPE) = <<Str_python>> /\ ~is_dry
         THEN The({IF found = <<>> THEN Linted("panic", acc.lst, TRUE)
                   ELSE The({Linted(r.st, r.tokens, TRUE) :
                             r \in {remove_var(acc.lst, found[1], checks)}}) :
                   found \in {find_var(acc.lst, Str_ABTYPE)}})
         ELSE acc :
         c \in {ApmlContext_eval_lst(acc.lst)}})

\* NOPYTHON2=1 is appended after ABTYPE; the value is ast::Text::from("1"),
\* the text of the one literal word
pep517_nopython2(acc, is_dry) ==
    IF acc.st # "ok" THEN acc
    ELSE The({IF c.st # "ok" THEN Linted("err", acc.lst, acc.dirty)
              ELSE IF into_string(get_or_default(c.ctx[1], Str_NOPYTHON2)) # <<"1">> /\ ~is_dry
              THEN Linted("ok",
                          append_var_ast(acc.lst, Str_NOPYTHON2,
                                         AvString(<<WLiteral(<<"1">>)>>), <<Str_ABTYPE>>),
                          TRUE)
              ELSE acc :
              c \in {ApmlContext_eval_lst(acc.lst)}})

\* The dependency lists being worked on: [st, pkgdep, builddep, pkgdep_dirty]
DepLists(st, pkgdep, builddep, pkgdep_dirty) ==
    [st |-> st, pkgdep |-> pkgdep, builddep |-> builddep, pkgdep_dirty |-> pkgdep_dirty]

\* python-2 leaves PKGDEP
drop_python2(d, is_dry) ==
    IF Contains(d.pkgdep, Str_python2) /\ ~is_dry
    THEN DepLists(d.st, RemoveFirst(d.pkgdep, Str_python2), d.builddep, TRUE)
    ELSE d

\* python-3 joins PKGDEP
push_python3(d, is_dry) ==
    IF ~Contains(d.pkgdep, Str_python3) /\ ~is_dry
    THEN DepLists(d.st, Append(d.pkgdep, Str_python3), d.builddep, TRUE)
    ELSE d

\* for dep in &mut py_deps: a dep is [build_dep, found, prov], found being
\* "some", "none" or "err" for what find_system_package returned
RECURSIVE suggest_deps(_, _, _, _)
suggest_deps(deps, j, d, is_dry) ==
    IF j > Len(deps) THEN d
    ELSE IF deps[j].found = "err" THEN DepLists("err", d.pkgdep, d.builddep, d.pkgdep_dirty)
    ELSE IF \/ deps[j].found = "none"
            \/ Contains(d.pkgdep, deps[j].prov)
            \/ (deps[j].build_dep /\ Contains(d.builddep, deps[j].prov))
            \/ is_dry
    THEN suggest_deps(deps, j + 1, d, is_dry)
    ELSE IF ~deps[j].build_dep
    THEN suggest_deps(deps, j + 1,
                      DepLists(d.st, Append(d.pkgdep, deps[j].prov), d.builddep, TRUE), is_dry)
    ELSE suggest_deps(deps, j + 1,
                      DepLists(d.st, d.pkgdep, Append(d.builddep, deps[j].prov), TRUE), is_dry)

\* PKGDEP and BUILDDEP are rewritten when a dependency changed
pep517_deps(acc, is_dry, deps) ==
    IF acc.st # "ok" THEN acc
    ELSE The({IF c.st # "ok" THEN Linted("err", acc.lst, acc.dirty)
              ELSE The({IF d.st # "ok" THEN Linted("err", acc.lst, acc.dirty)
                        ELSE IF d.pkgdep_dirty
                        THEN Linted("ok",
                                    replace_var_lst(
                                        replace_var_lst(acc.lst, Str_PKGDEP,
                                                        LvString(StringArray_print(d.pkgdep))),
                                        Str_BUILDDEP, LvString(StringArray_print(d.builddep))),
                                    TRUE)
                        ELSE acc :
                        d \in {suggest_deps(deps, 1,
                                   push_python3(
                                       drop_python2(
                                           DepLists("ok",
                                               StringArray_from(Concat(ctx_string(c.ctx[1], Str_PKGDEP))),
                                               StringArray_from(Concat(ctx_string(c.ctx[1], Str_BUILDDEP))),
                                               FALSE),
                                           is_dry),
                                       is_dry),
                                   is_dry)}}) :
              c \in {ApmlContext_eval_lst(acc.lst)}})

\* Pep517Linter::apply on one defines accessor
Pep517Linter_apply(ts, is_dry, checks, env) ==
    IF env.pyproject = "err" THEN Linted("err", ts, FALSE)
    ELSE IF env.pyproject = "no" THEN Linted("ok", ts, FALSE)
    ELSE pep517_deps(
             pep517_nopython2(pep517_abtype(Linted("ok", ts, FALSE), is_dry, checks), is_dry),
             is_dry, env.deps)

(***************************************************************************)
(* SpecLint: main of pakfixer on one package (pakfixer/main.rs).  The      *)
(* selected linters are applied one after the other, in the order of a     *)
(* HashSet, each to the accessors it walks; the dirty accessors are saved  *)
(* then unless the session is dry.                                         *)
(***************************************************************************)
MaxLintLines == 2

AssignAB == StrDef(NameA, "=", <<"b">>)

\* The lines of a spec file: empty, a space, a="b", and a="b" after or
\* before a space.
StyleLines ==
    { <<>>, <<TSpacy(" ")>>, <<AssignAB>>, <<TSpacy(" "), AssignAB>>, <<AssignAB, TSpacy(" ")>> }

\* The spec files: those of up to MaxLintLines lines, a="b" with empty lines
\* after it, and two definitions with empty lines between them.
SpecFiles ==
    {JoinLines(ls) : ls \in SeqsUpTo(StyleLines, MaxLintLines)}
    \cup { <<AssignAB, TNewline, TNewline>>,
           <<AssignAB, TNewline, TNewline, TNewline>>,
           <<AssignAB, TNewline, TNewline, TNewline, TNewline, AssignAB, TNewline>> }

\* The defines files: empty, ABTYPE=python alone with and without a newline
\* after it, and files with dependencies.
DefinesFiles ==
    { <<>>,
      <<StrDef(Str_ABTYPE, "=", Str_python), TNewline>>,
      <<StrDef(Str_ABTYPE, "=", Str_python)>>,
      <<StrDef(NameA, "=", <<"b">>), TNewline,
        StrDef(Str_ABTYPE, "=", Str_python), TSpacy(" "), TNewline,
        StrDef(Str_PKGDEP, "=", Str_python2 \o <<" ", "x">>), TNewline>>,
      <<StrDef(Str_NOPYTHON2, "=", <<"1">>), TNewline,
        StrDef(Str_PKGDEP, "=", Str_python3), TNewline, TNewline>> }

Linters == {"extra-spaces", "empty-line", "pep517"}

\* What the Pep517 linter may find outside the accessor.
Pep517Envs ==
    {[pyproject |-> p, deps |-> <<>>] : p \in {"no", "err"}}
    \cup {[pyproject |-> "yes", deps |-> ds] :
            ds \in {<<>>} \cup {<<[build_dep |-> b, found |-> f, prov |-> <<"x">>]>> :
                                  b \in BOOLEAN, f \in {"some", "none", "err"}}}

\* ApmlFileAccess::open: the file parses, emits and evaluates, and is clean
Accessor(ts) == [lst |-> ts, dirty |-> FALSE]

InitLint ==
    /\ dry \in BOOLEAN
    /\ profile \in Builds
    /\ files \in {<<Accessor(s), Accessor(d)>> :
                    s \in {f \in SpecFiles : ApmlContext_eval_lst(f).st = "ok"},
                    d \in {f \in DefinesFiles : ApmlContext_eval_lst(f).st = "ok"}}
    /\ todo \in SUBSET Linters
    /\ applied = "none"
    /\ status = "linting"
    /\ IdleBut("lint")

\* An accessor after a linter that returned r for it.
Touched(apml, r) == [lst |-> r.lst, dirty |-> apml.dirty \/ r.dirty]

\* What every linter applied leaves, but for the accessors and the status.
LinterDone(linter) ==
    /\ status = "linting"
    /\ linter \in todo
    /\ todo' = todo \ {linter}
    /\ applied' = linter
    /\ UNCHANGED <<dry, profile, notLint>>

\* ExtraSpacesLinter.apply(&sess): for apml in walk_apml(sess)
ApplyExtraSpaces ==
    /\ LinterDone("extra-spaces")
    /\ files' = [i \in DOMAIN files |->
                    Touched(files[i], ExtraSpacesLinter_apply(files[i].lst, dry))]
    /\ UNCHANGED status

\* EmptyLineLinter.apply(&sess): for apml in walk_apml(sess)
ApplyEmptyLine ==
    /\ LinterDone("empty-line")
    /\ files' = [i \in DOMAIN files |->
                    Touched(files[i], EmptyLineLinter_apply(files[i].lst, dry))]
    /\ UNCHANGED status

\* Pep517Linter.apply(&sess): for apml in walk_defines(sess); an Err is
\* logged by main, which goes on
ApplyPep517 ==
    /\ LinterDone("pep517")
    /\ \E env \in Pep517Envs :
          \E r \in {Pep517Linter_apply(files[2].lst, dry, profile, env)} :
             /\ files' = [files EXCEPT ![2] = Touched(files[2], r)]
             /\ status' = (IF r.st = "panic" THEN "panic" ELSE "linting")

\* The end of main's loop body: the dirty accessors are saved, save clearing
\* the mark before it writes, and main leaves at the first write that fails;
\* a dry session is checked for dirty accessors in a debug build.
Finish ==
    /\ status = "linting"
    /\ todo = {}
    /\ IF ~dry
       THEN \/ /\ files' = [i \in DOMAIN files |-> [files[i] EXCEPT !.dirty = FALSE]]
               /\ status' = "saved"
            \/ \E i \in DOMAIN files :
                  /\ files[i].dirty
                  /\ files' = [h \in DOMAIN files |->
                                  IF h <= i THEN [files[h] EXCEPT !.dirty = FALSE]
                                  ELSE files[h]]
                  /\ status' = "failed"
       ELSE /\ files' = files
            /\ status' = (IF profile = "debug" /\ \E i \in DOMAIN files : files[i].dirty
                          THEN "bailed" ELSE "done")
    /\ UNCHANGED <<dry, profile, todo, applied, notLint>>

NextLint == ApplyExtraSpaces \/ ApplyEmptyLine \/ ApplyPep517 \/ Finish

SpecLint == InitLint /\ [][NextLint]_vars

\* The selected linters have all been applied and main has not yet saved.
AllApplied == todo = {} /\ status = "linting"

EndsWithOneNewline(ts) ==
    /\ ts[Len(ts)].k = "Newline"
    /\ (Len(ts) = 1 \/ ts[Len(ts) - 1].k # "Newline")

\* C29: right after EmptyLineLinter has been applied in a session that is not
\* dry, every token list of the session that is not empty ends with exactly
\* one newline.
C29_OneLastNewline ==
    (~dry /\ applied = "empty-line" /\ status = "linting") =>
        \A i \in DOMAIN files : files[i].lst # <<>> => EndsWithOneNewline(files[i].lst)

\* A line of ts begins or ends with a space.
SpaceAtLineEdge(ts) ==
    \E p \in 1..Len(ts) :
        /\ ts[p].k = "Spacy"
        /\ \/ p = 1 \/ ts[p - 1].k = "Newline"
           \/ p = Len(ts) \/ ts[p + 1].k = "Newline"

\* C30: right after ExtraSpacesLinter has been applied in a session that is
\* not dry, no line of a token list of the session begins or ends with a
\* space.
C30_NoSpaceAtLineEdge ==
    (~dry /\ applied = "extra-spaces" /\ status = "linting") =>
        \A i \in DOMAIN files : ~SpaceAtLineEdge(files[i].lst)

====
